---- MODULE Spec2Model ----
(***************************************************************************)
(* Model of the milo-dex pool daemons.                                     *)
(*                                                                         *)
(*   swap daemon       src/pool-daemon/src/bin/swap_daemon.rs              *)
(*   liquidity daemon  src/pool-daemon/src/bin/liquidity_daemon.rs         *)
(*                                                                         *)
(* Each daemon is one worker thread owning the ledger client, plus HTTP    *)
(* handlers that run concurrently with it and share the mutex-protected    *)
(* maps.  A worker step is the code between two await points; the ledger   *)
(* client (sync, submit, confirmation poll) is the nondeterministic        *)
(* environment.                                                            *)
(***************************************************************************)
EXTENDS Integers, Sequences, FiniteSets, TLC

(***************************************************************************)
(* Bounds of the model.                                                    *)
(***************************************************************************)
MaxTime == 1          \* the clock runs 0..MaxTime
MaxOrders == 2        \* limit orders ever created
MaxRequests == 2      \* /consume requests ever sent to the swap daemon
MaxCancels == 1       \* /cancel_limit_order requests ever sent
MaxLiqConsumes == 1   \* /consume requests ever sent to the liquidity daemon
MaxWithdraws == 2     \* /withdraw requests ever sent

(***************************************************************************)
(* Program constants.                                                      *)
(***************************************************************************)
BPS_DENOM == 10000            \* 10000u128 in the pricing formula
RETENTION_SECS == 86400       \* price samples kept for 24 hours
FEE_WINDOW == 10              \* .take(10) in calculate_dynamic_fee
FEE_LOW == 5
FEE_NORMAL == 10
FEE_HIGH == 30

(***************************************************************************)
(* The world of the swap daemon: two pools (pools.json), two assets, the   *)
(* notes users may send to a pool and the intents they may register.       *)
(***************************************************************************)
Pools == <<"milo", "melo">>
PoolSet == {Pools[i] : i \in DOMAIN Pools}
Tokens == {"A", "B"}
Notes == {"n1", "n2"}

\* what a note carries on the ledger: its target pool and its asset
NotePool == [n \in Notes |-> "milo"]
NoteToken == [n \in Notes |-> "A"]
NoteAmount == [n \in Notes |-> 100]

\* SwapInfo payloads a caller may register (amounts already parsed to u64)
SwapInfos ==
    { [pool_account_id |-> "milo", sell_token_id |-> "A", buy_token_id |-> "B",
       amount_in |-> 100, min_amount_out |-> m, user_account_id |-> "u1"]
         : m \in {90, 91} }

\* expires_in_secs values a /limit_order request may carry
ExpiresIn == {0, 2}

\* pool_account_id of a /consume body: absent, a pool, or not a valid hex id
PoolOpts == {"none", "milo", "bad"}

(***************************************************************************)
(* The world of the liquidity daemon: deposit notes, the deposit intents   *)
(* a caller may register, and the withdrawals a caller may ask for.        *)
(***************************************************************************)
Users == {"u1", "u2"}
DepositNotes == {"d1", "d2"}
DepositPool == [n \in DepositNotes |-> "milo"]
DepositToken == [n \in DepositNotes |-> IF n = "d1" THEN "A" ELSE "B"]
DepositAmount == [n \in DepositNotes |-> 1000]

\* DepositInfo payloads (amount already parsed to u64)
DepositInfos == { [user_account_id |-> "u1", amount |-> 1000] }

\* lp_amount values of a /withdraw body (0 is rejected by the handler)
LpAmounts == {300, 5000}

Max(a, b) == IF a >= b THEN a ELSE b
Min(a, b) == IF a <= b THEN a ELSE b
Abs(a) == IF a >= 0 THEN a ELSE -a

VARIABLES
    now,              \* wall clock, seconds
    swap_info_map,    \* Intent Registry: note id -> SwapInfo
    price_history,    \* Price Oracle series
    limit_orders,     \* Limit Order Book (a Vec, never shrinks)
    consume_rx,       \* mpsc channel of ConsumeRequest
    replies,          \* per request: what the oneshot reply channel carried
    pc,               \* where the worker is
    job,              \* locals of the running consume_pool_notes
    swap,             \* locals of the running execute_p2id_swap
    sweep,            \* pending_orders snapshot of check_limit_orders
    consumable,       \* ledger: notes consumable by their pool
    arrived,          \* ledger: notes ever sent
    vault,            \* ledger: pool -> asset -> amount
    txlog,            \* ledger: transactions submitted by the daemon
    settled,          \* history: per note, times it was counted as consumed
    last_swap,        \* history: outcome of the last execute_p2id_swap
    cancel_log        \* history: responses of /cancel_limit_order

swapVars == <<now, swap_info_map, price_history, limit_orders, consume_rx,
              replies, pc, job, swap, sweep, consumable, arrived, vault,
              txlog, settled, last_swap, cancel_log>>

VARIABLES
    deposit_info_map, \* Intent Registry of the liquidity daemon
    user_deposits,    \* <<user, pool>> -> UserPoolDeposit
    deposits_file,    \* user_deposits.json
    worker_rx,        \* mpsc channel of WorkerRequest
    liq_replies,      \* per request: what the reply channel carried
    liq_pc,           \* where the worker is
    liq_job,          \* locals of the running consume_pool_notes
    wd,               \* locals of the running execute_withdraw
    liq_consumable,   \* ledger: deposit notes consumable by their pool
    liq_arrived,      \* ledger: deposit notes ever sent
    liq_vault,        \* ledger: pool -> asset -> amount
    liq_txlog,        \* ledger: transactions submitted by the daemon
    credited          \* history: <<user, pool>> -> total ever credited

liqVars == <<deposit_info_map, user_deposits, deposits_file, worker_rx,
             liq_replies, liq_pc, liq_job, wd, liq_consumable, liq_arrived,
             liq_vault, liq_txlog, credited>>

VARIABLES
    disk,             \* file system: what the next fs::write will do
    probe,            \* a call of a pure function: its arguments and result
    last_poll,        \* swap daemon worker: when the poll timer was last reset
    cycle,            \* history: the worker's running cycle and its last sweep
    serving           \* the daemons whose HTTP server holds its queue's sender

engineAux == <<last_poll, cycle, serving>>
auxVars == <<disk, probe, last_poll, cycle, serving>>

vars == <<swapVars, liqVars, auxVars>>

(***************************************************************************)
(* HashMap helpers.                                                        *)
(***************************************************************************)
MapInsert(m, k, v) == [x \in DOMAIN m \cup {k} |-> IF x = k THEN v ELSE m[x]]
MapRemove(m, k) == [x \in DOMAIN m \ {k} |-> m[x]]
EmptyMap == [x \in {} |-> 0]

(***************************************************************************)
(* Pricing Engine (execute_p2id_swap step 3, check_limit_orders).          *)
(***************************************************************************)
AmountOut(amount_in, reserve_in, reserve_out, fee_bps) ==
    LET fee_multiplier == BPS_DENOM - fee_bps
        amount_in_with_fee == amount_in * fee_multiplier
        numerator == amount_in_with_fee * reserve_out
        denominator == reserve_in * BPS_DENOM + amount_in_with_fee
    IN  numerator \div denominator

(***************************************************************************)
(* Volatility Fee Estimator.  Prices are f64 in the code; here a price is  *)
(* the pair reserve_b / reserve_a and a relative change is computed in     *)
(* fixed point with six decimals by long division.                         *)
(***************************************************************************)
SCALE_DIGITS == 6
RECURSIVE Pow10(_)
Pow10(d) == IF d = 0 THEN 1 ELSE 10 * Pow10(d - 1)

RECURSIVE Frac(_, _, _)
Frac(r, den, digits) ==
    IF digits = 0 THEN 0
    ELSE ((r * 10) \div den) * Pow10(digits - 1)
           + Frac((r * 10) % den, den, digits - 1)

\* |newer - older| / older for prices b/a, in units of 10^-6, capped at 100.0
RelChange(newer, older) ==
    LET diff == Abs(newer.reserve_b * older.reserve_a
                      - older.reserve_b * newer.reserve_a)
        den == newer.reserve_a * older.reserve_b
        q == diff \div den
    IN  IF q >= 100 THEN 100 * Pow10(SCALE_DIGITS)
        ELSE q * Pow10(SCALE_DIGITS) + Frac(diff % den, den, SCALE_DIGITS)

RECURSIVE SeqSum(_)
SeqSum(s) == IF s = <<>> THEN 0 ELSE Head(s) + SeqSum(Tail(s))

RECURSIVE SumSqCapped(_, _)
SumSqCapped(s, mean) ==
    IF s = <<>> THEN 0
    ELSE LET d == Min(Abs(Head(s) - mean), 30000)
         IN  Min(d * d + SumSqCapped(Tail(s), mean), 1000000000)

Reverse(s) == [i \in 1..Len(s) |-> s[Len(s) + 1 - i]]
SelectPool(history, pool_id) == SelectSeq(history, LAMBDA p : p.pool_id = pool_id)
\* an estimator that looks at the whole history
TakeAll(s, n) == s

TakeN(s, n) == SubSeq(s, 1, Min(n, Len(s)))

\* an estimator that grades the mean relative change, not its deviation
FeeFromMeanChange(history, pool_id) ==
    LET recent == TakeN(Reverse(SelectPool(history, pool_id)), FEE_WINDOW)
        k == Len(recent) - 1
        changes == [i \in 1..k |-> RelChange(recent[i], recent[i + 1])]
        mean == SeqSum(changes) \div k
    IN  IF Len(recent) < 2 THEN FEE_NORMAL
        ELSE IF mean < 1000 THEN FEE_LOW
        ELSE IF mean < 10000 THEN FEE_NORMAL
        ELSE FEE_HIGH

calculate_dynamic_fee(history, pool_id) ==
    LET recent == TakeN(Reverse(SelectPool(history, pool_id)), FEE_WINDOW)
        k == Len(recent) - 1
        changes == [i \in 1..k |-> RelChange(recent[i], recent[i + 1])]
        mean == SeqSum(changes) \div k
        sumsq == SumSqCapped(changes, mean)
    IN  IF Len(recent) < 2 THEN FEE_NORMAL
        ELSE IF sumsq < k * 1000000 THEN FEE_LOW        \* std_dev < 0.001
        ELSE IF sumsq < k * 100000000 THEN FEE_NORMAL   \* std_dev < 0.01
        ELSE FEE_HIGH

(***************************************************************************)
(* Initial state: both daemons just started, nothing registered, pools     *)
(* funded on the ledger.                                                   *)
(***************************************************************************)
NoJob == [auto |-> FALSE, req |-> 0, pools |-> <<>>, notes |-> <<>>,
          total_consumed |-> 0]
NoSwap == [note |-> "none", pool |-> "none", amount_in |-> 0, amount_out |-> 0,
           reserve_in |-> 0, reserve_out |-> 0]
NoResult == [note |-> "none", result |-> "none", amount_out |-> 0,
             min_amount_out |-> 0, reserve_in |-> 0, reserve_out |-> 0,
             fee_bps |-> 0, auto |-> FALSE]
\* status/consumed: what the worker put on the oneshot reply channel;
\* http: the status code the handler answered with (0 while it has not)
NoReply == [status |-> "unsent", consumed |-> 0, http |-> 0]

SwapInit ==
    /\ now = 0
    /\ swap_info_map = EmptyMap
    /\ price_history = <<>>
    /\ limit_orders = <<>>
    /\ consume_rx = <<>>
    /\ replies = [r \in 1..MaxRequests |-> NoReply]
    /\ pc = "idle"
    /\ job = NoJob
    /\ swap = NoSwap
    /\ sweep = <<>>
    /\ consumable = {}
    /\ arrived = {}
    /\ vault = [p \in PoolSet |-> [t \in Tokens |-> 1000]]
    /\ txlog = <<>>
    /\ settled = [n \in Notes |-> 0]
    /\ last_swap = NoResult
    /\ cancel_log = <<>>

(***************************************************************************)
(* Environment: the clock, and users sending notes to a pool.              *)
(***************************************************************************)
Tick ==
    /\ now < MaxTime
    /\ now' = now + 1
    /\ UNCHANGED <<swap_info_map, price_history, limit_orders, consume_rx,
                   replies, pc, job, swap, sweep, consumable, arrived, vault,
                   txlog, settled, last_swap, cancel_log>>

NoteArrives(n) ==
    /\ n \notin arrived
    /\ arrived' = arrived \cup {n}
    /\ consumable' = consumable \cup {n}
    /\ UNCHANGED <<now, swap_info_map, price_history, limit_orders, consume_rx,
                   replies, pc, job, swap, sweep, vault, txlog, settled,
                   last_swap, cancel_log>>

(***************************************************************************)
(* HTTP handlers of the swap daemon (run on the server's threads).         *)
(***************************************************************************)
\* POST /track_note with swap_info
track_note_handler(note_id, swap_info) ==
    /\ swap_info_map' = MapInsert(swap_info_map, note_id, swap_info)
    /\ UNCHANGED <<now, price_history, limit_orders, consume_rx, replies, pc,
                   job, swap, sweep, consumable, arrived, vault, txlog,
                   settled, last_swap, cancel_log>>

\* POST /consume: enqueue a ConsumeRequest for the worker
NextReq == Cardinality({r \in DOMAIN replies : replies[r].status # "unsent"}) + 1

\* consume_tx.send fails once the worker thread has returned and dropped the
\* receiver: the handler answers 500 at once
consume_handler(pool_id_opt) ==
    /\ NextReq <= MaxRequests
    /\ IF pc = "dead"
       THEN /\ replies' = [replies EXCEPT ![NextReq] =
                             [status |-> "send_failed", consumed |-> 0, http |-> 500]]
            /\ UNCHANGED consume_rx
       ELSE /\ consume_rx' = Append(consume_rx,
                                    [id |-> NextReq, pool_id_opt |-> pool_id_opt])
            /\ replies' = [replies EXCEPT ![NextReq].status = "queued"]
    /\ UNCHANGED <<now, swap_info_map, price_history, limit_orders, pc, job,
                   swap, sweep, consumable, arrived, vault, txlog, settled,
                   last_swap, cancel_log>>

\* order_id = "LO-<note id prefix>-<now>"
OrderId(note_id, created_at) == <<note_id, created_at>>

\* POST /limit_order
create_limit_order_handler(note_id, swap_info, expires_in_secs) ==
    /\ Len(limit_orders) < MaxOrders
    /\ LET order == [order_id |-> OrderId(note_id, now),
                     note_id |-> note_id,
                     pool_id |-> swap_info.pool_account_id,
                     sell_token_id |-> swap_info.sell_token_id,
                     buy_token_id |-> swap_info.buy_token_id,
                     amount_in |-> swap_info.amount_in,
                     min_amount_out |-> swap_info.min_amount_out,
                     created_at |-> now,
                     expires_at |-> now + expires_in_secs,
                     status |-> "Pending"]
       IN  /\ swap_info_map' = MapInsert(swap_info_map, note_id, swap_info)
           /\ limit_orders' = Append(limit_orders, order)
    /\ UNCHANGED <<now, price_history, consume_rx, replies, pc, job, swap,
                   sweep, consumable, arrived, vault, txlog, settled,
                   last_swap, cancel_log>>

\* the first of the matching indices, 0 if none (iter_mut().find)
FindFirst(hits) ==
    IF hits = {} THEN 0 ELSE CHOOSE i \in hits : \A j \in hits : i <= j

\* a cancel that looks the order up by id alone
CancelMatchesAnyStatus(o, order_id) == o.order_id = order_id

CancelMatches(o, order_id) == o.order_id = order_id /\ o.status = "Pending"

\* POST /cancel_limit_order
cancel_limit_order_handler(order_id) ==
    /\ Len(cancel_log) < MaxCancels
    /\ LET i == FindFirst({k \in DOMAIN limit_orders :
                                CancelMatches(limit_orders[k], order_id)})
       IN  IF i # 0
           THEN /\ limit_orders' = [limit_orders EXCEPT ![i].status = "Cancelled"]
                /\ cancel_log' = Append(cancel_log, [order_id |-> order_id, code |-> 200])
           ELSE /\ limit_orders' = limit_orders
                /\ cancel_log' = Append(cancel_log, [order_id |-> order_id, code |-> 404])
    /\ UNCHANGED <<now, swap_info_map, price_history, consume_rx, replies, pc,
                   job, swap, sweep, consumable, arrived, vault, txlog,
                   settled, last_swap>>

(***************************************************************************)
(* Ledger client as the worker sees it.                                    *)
(***************************************************************************)
\* all orders in which get_consumable_notes may list a set of notes
Orderings(S) ==
    {q \in [1..Cardinality(S) -> S] : \A i, j \in DOMAIN q : i # j => q[i] # q[j]}

ConsumableOf(pool) == {n \in consumable : NotePool[n] = pool}

\* outcomes of sync + submit, and of the confirmation poll
SubmitOutcomes == {"ok", "sync_err", "submit_err", "mismatch"}
WaitOutcomes == {"confirmed", "timeout"}

\* a swap that consumes the input note and leaves the payout to a later
\* transaction
SwapTxInputOnly(pool, note, info, amount_out, auto) ==
    [pool |-> pool, input |-> note, has_output |-> FALSE,
     to |-> "none", asset |-> "none", amount |-> 0, auto |-> auto,
     had_intent |-> note \in DOMAIN swap_info_map, status |-> "submitted"]

\* the transaction a swap submits: input note and payout note together
SwapTx(pool, note, info, amount_out, auto) ==
    [pool |-> pool, input |-> note, has_output |-> TRUE,
     to |-> info.user_account_id, asset |-> info.buy_token_id,
     amount |-> amount_out, auto |-> auto,
     had_intent |-> note \in DOMAIN swap_info_map, status |-> "submitted"]

\* the transaction a plain consume submits: the input note only
PlainTx(pool, note, auto) ==
    [pool |-> pool, input |-> note, has_output |-> FALSE,
     to |-> "none", asset |-> "none", amount |-> 0, auto |-> auto,
     had_intent |-> note \in DOMAIN swap_info_map, status |-> "submitted"]

\* the vault after a transaction: the note's asset in, the payout out
VaultAfter(tx) ==
    LET received == [vault EXCEPT ![tx.pool][NoteToken[tx.input]] = @ + NoteAmount[tx.input]]
    IN  IF tx.has_output
        THEN [received EXCEPT ![tx.pool][tx.asset] = @ - tx.amount]
        ELSE received

SetLastStatus(log, st) == [log EXCEPT ![Len(log)].status = st]

(***************************************************************************)
(* execute_p2id_swap, up to the submission.                                *)
(***************************************************************************)
\* a reserve kept from the previous swap instead of read from the account
ReserveInCached(pool, info) ==
    IF last_swap.reserve_in = 0 THEN vault[pool][info.sell_token_id]
    ELSE last_swap.reserve_in

ReserveIn(pool, info) == vault[pool][info.sell_token_id]
ReserveOut(pool, info) ==
    IF info.buy_token_id = info.sell_token_id THEN 0 ELSE vault[pool][info.buy_token_id]

Quote(pool, info) ==
    AmountOut(info.amount_in, ReserveIn(pool, info), ReserveOut(pool, info),
              calculate_dynamic_fee(price_history, pool))

\* a slippage check that lets an output one unit short of the minimum through
SlippageOffByOne(amount_out, min_amount_out) == amount_out + 1 < min_amount_out

SlippageExceeded(amount_out, min_amount_out) == amount_out < min_amount_out

\* an execute_p2id_swap without the check of the reserves
SwapResultUnchecked(pool, note, info, out) ==
    IF out = "sync_err" THEN "sync_err"
    ELSE IF SlippageExceeded(Quote(pool, info), info.min_amount_out) THEN "slippage"
    ELSE IF out = "submit_err" \/ note \notin consumable THEN "submit_err"
    ELSE IF out = "mismatch" THEN "mismatch"
    ELSE "submitted"

\* "submitted", or the error execute_p2id_swap returns before or at submission
SwapResult(pool, note, info, out) ==
    IF out = "sync_err" THEN "sync_err"
    ELSE IF ReserveIn(pool, info) = 0 \/ ReserveOut(pool, info) = 0 THEN "empty_pool"
    ELSE IF SlippageExceeded(Quote(pool, info), info.min_amount_out) THEN "slippage"
    ELSE IF out = "submit_err" \/ note \notin consumable THEN "submit_err"
    ELSE IF out = "mismatch" THEN "mismatch"
    ELSE "submitted"

ResultRecord(pool, note, info, result, auto) ==
    [note |-> note, result |-> result,
     amount_out |-> IF result \in {"sync_err", "empty_pool"} THEN 0 ELSE Quote(pool, info),
     min_amount_out |-> info.min_amount_out,
     reserve_in |-> ReserveIn(pool, info), reserve_out |-> ReserveOut(pool, info),
     fee_bps |-> calculate_dynamic_fee(price_history, pool), auto |-> auto]

\* the ledger and the swap locals after the first half of execute_p2id_swap
execute_p2id_swap(pool, note, info, out, auto) ==
    LET result == SwapResult(pool, note, info, out)
    IN  /\ last_swap' = ResultRecord(pool, note, info, result, auto)
        /\ IF result = "submitted"
           THEN LET tx == SwapTx(pool, note, info, Quote(pool, info), auto)
                IN  /\ txlog' = Append(txlog, tx)
                    /\ vault' = VaultAfter(tx)
                    /\ consumable' = consumable \ {note}
                    /\ swap' = [note |-> note, pool |-> pool,
                                amount_in |-> info.amount_in,
                                amount_out |-> Quote(pool, info),
                                reserve_in |-> ReserveIn(pool, info),
                                reserve_out |-> ReserveOut(pool, info)]
           ELSE UNCHANGED <<txlog, vault, consumable, swap>>

\* a record that appends the sample and purges nothing
RecordPriceKeepAll(history, sw, t) ==
    Append(history, [timestamp |-> t, pool_id |-> sw.pool,
                     reserve_a |-> sw.reserve_in + sw.amount_in,
                     reserve_b |-> sw.reserve_out - sw.amount_out])

\* step 6: the sample recorded after a confirmed swap, then the 24 h purge
RecordPrice(history, sw, t) ==
    LET point == [timestamp |-> t, pool_id |-> sw.pool,
                  reserve_a |-> sw.reserve_in + sw.amount_in,
                  reserve_b |-> sw.reserve_out - sw.amount_out]
        cutoff == Max(t - RETENTION_SECS, 0)
    IN  SelectSeq(Append(history, point), LAMBDA p : p.timestamp >= cutoff)

\* the second half: wait_for_transaction, then the price sample
finish_p2id_swap(w) ==
    /\ txlog' = SetLastStatus(txlog, w)
    /\ last_swap' = [last_swap EXCEPT !.result = w]
    /\ price_history' = IF w = "confirmed" THEN RecordPrice(price_history, swap, now)
                        ELSE price_history
    /\ swap' = NoSwap

(***************************************************************************)
(* The worker of the swap daemon: main's event loop, consume_pool_notes    *)
(* and check_limit_orders, one step per stretch between await points.      *)
(***************************************************************************)
PoolsOf(pool_id_opt) == IF pool_id_opt = "none" THEN Pools ELSE <<pool_id_opt>>

\* try_recv() returned a request: start consume_pool_notes(.., false)
WorkerRecv ==
    /\ pc = "idle"
    /\ consume_rx # <<>>
    /\ LET req == Head(consume_rx)
       IN  /\ consume_rx' = Tail(consume_rx)
           /\ IF req.pool_id_opt = "bad"
              THEN /\ replies' = [replies EXCEPT ![req.id].status = "err"]
                   /\ UNCHANGED <<pc, job>>
              ELSE /\ job' = [auto |-> FALSE, req |-> req.id,
                              pools |-> PoolsOf(req.pool_id_opt),
                              notes |-> <<>>, total_consumed |-> 0]
                   /\ pc' = "pool"
                   /\ UNCHANGED replies
    /\ UNCHANGED <<now, swap_info_map, price_history, limit_orders, swap, sweep,
                   consumable, arrived, vault, txlog, settled, last_swap, cancel_log>>

\* try_recv() was Empty and 15 s have elapsed: consume_pool_notes(.., true)
WorkerAutoPoll ==
    /\ pc = "idle"
    /\ consume_rx = <<>>
    /\ job' = [auto |-> TRUE, req |-> 0, pools |-> Pools, notes |-> <<>>,
               total_consumed |-> 0]
    /\ pc' = "pool"
    /\ UNCHANGED <<now, swap_info_map, price_history, limit_orders, consume_rx,
                   replies, swap, sweep, consumable, arrived, vault, txlog,
                   settled, last_swap, cancel_log>>

\* a worker that unwraps the result of reply.send
AfterReplySendUnwrapped(delivered) == IF delivered THEN "idle" ELSE "dead"

\* let _ = req.reply.send(..): the worker goes back to its loop whether or
\* not the handler was still waiting
AfterReplySend(delivered) == "idle"

\* consume_pool_notes returns: reply to the request, or go on to the sweep
ConsumeReturns(status) ==
    /\ job' = NoJob
    /\ IF job.auto
       THEN /\ pc' = "sweep"
            /\ UNCHANGED replies
       ELSE /\ pc' = AfterReplySend(replies[job.req].http = 0)
            /\ replies' = [replies EXCEPT
                             ![job.req].status = status,
                             ![job.req].consumed =
                                 IF status = "ok" THEN job.total_consumed ELSE 0]

\* top of the pool loop: sync, then get_consumable_notes
PoolStep ==
    /\ pc = "pool"
    /\ IF job.pools = <<>>
       THEN ConsumeReturns("ok")
       ELSE \/ ConsumeReturns("err")
            \/ \E q \in Orderings(ConsumableOf(Head(job.pools))) :
                  /\ UNCHANGED replies
                  /\ IF q = <<>>
                     THEN /\ job' = [job EXCEPT !.pools = Tail(job.pools)]
                          /\ pc' = "pool"
                     ELSE /\ job' = [job EXCEPT !.notes = q]
                          /\ pc' = "note"
    /\ UNCHANGED <<now, swap_info_map, price_history, limit_orders, consume_rx,
                   swap, sweep, consumable, arrived, vault, txlog, settled,
                   last_swap, cancel_log>>

\* a scan that consumes notes without swap_info as a request does
ConsumesPlainAlways(auto) == TRUE

\* a note without swap_info is consumed only on an HTTP request
ConsumesPlain(auto) == ~auto

\* outcomes of the plain consume: submit, then the 30 s wait
PlainOutcomes == {"confirmed", "timeout", "wait_err", "submit_err"}

\* a plain consume that counts every attempt, a failed submission included
PlainCountedAlways(out) == TRUE

\* whether consume_pool_notes counts the outcome of a plain consume
PlainCounted(out) == out \in {"confirmed", "timeout"}

\* a note loop that counts the swap in the Err(e) arm too
SwapCountedOnError(result) == TRUE

\* whether consume_pool_notes counts the swap and forgets its intent: only in
\* the Ok(_) arm of the match on execute_p2id_swap
SwapCounted(result) == result = "confirmed"

\* the Err(e) arm breaks out of the note loop on a state mismatch
RestAfter(result, notes) == IF result = "mismatch" THEN <<>> ELSE Tail(notes)

Skipped(note, auto) == [NoResult EXCEPT !.note = note, !.result = "skipped", !.auto = auto]

\* the note loop of consume_pool_notes, one note per step
NoteStep ==
    /\ pc = "note"
    /\ IF job.notes = <<>>
       THEN /\ job' = [job EXCEPT !.pools = Tail(job.pools)]
            /\ pc' = "pool"
            /\ UNCHANGED <<swap, consumable, vault, txlog, settled, last_swap,
                           swap_info_map>>
       ELSE LET note == Head(job.notes)
                pool == Head(job.pools)
            IN  IF note \in DOMAIN swap_info_map
                THEN \E out \in SubmitOutcomes :
                        LET info == swap_info_map[note]
                            result == SwapResult(pool, note, info, out)
                        IN  /\ execute_p2id_swap(pool, note, info, out, job.auto)
                            /\ pc' = IF result = "submitted" THEN "await" ELSE "note"
                            /\ job' = IF result = "submitted" THEN job
                                      ELSE [job EXCEPT
                                              !.notes = RestAfter(result, job.notes),
                                              !.total_consumed =
                                                  IF SwapCounted(result) THEN @ + 1 ELSE @]
                            /\ IF result # "submitted" /\ SwapCounted(result)
                               THEN /\ swap_info_map' = MapRemove(swap_info_map, note)
                                    /\ settled' = [settled EXCEPT ![note] = @ + 1]
                               ELSE UNCHANGED <<swap_info_map, settled>>
                ELSE IF ConsumesPlain(job.auto)
                THEN \E o \in PlainOutcomes :
                        LET out == IF note \in consumable THEN o ELSE "submit_err"
                            tx == PlainTx(pool, note, job.auto)
                        IN  /\ IF out = "submit_err"
                               THEN UNCHANGED <<txlog, vault, consumable>>
                               ELSE /\ txlog' = Append(txlog, [tx EXCEPT !.status = out])
                                    /\ vault' = VaultAfter(tx)
                                    /\ consumable' = consumable \ {note}
                            /\ settled' = IF PlainCounted(out)
                                          THEN [settled EXCEPT ![note] = @ + 1]
                                          ELSE settled
                            /\ job' = [job EXCEPT
                                         !.notes = Tail(job.notes),
                                         !.total_consumed =
                                             IF PlainCounted(out) THEN @ + 1 ELSE @]
                            /\ pc' = "note"
                            /\ UNCHANGED <<swap, last_swap, swap_info_map>>
                ELSE /\ job' = [job EXCEPT !.notes = Tail(job.notes)]
                     /\ pc' = "note"
                     /\ last_swap' = Skipped(note, job.auto)
                     /\ UNCHANGED <<swap, consumable, vault, txlog, settled,
                                    swap_info_map>>
    /\ UNCHANGED <<now, price_history, limit_orders, consume_rx,
                   replies, sweep, arrived, cancel_log>>

\* execute_p2id_swap returns to consume_pool_notes
AwaitStep ==
    /\ pc = "await"
    /\ \E w \in WaitOutcomes :
          /\ finish_p2id_swap(w)
          /\ IF SwapCounted(w)
             THEN /\ job' = [job EXCEPT !.notes = Tail(job.notes),
                                        !.total_consumed = @ + 1]
                  /\ swap_info_map' = MapRemove(swap_info_map, swap.note)
                  /\ settled' = [settled EXCEPT ![swap.note] = @ + 1]
             ELSE /\ job' = [job EXCEPT !.notes = Tail(job.notes)]
                  /\ UNCHANGED <<swap_info_map, settled>>
    /\ pc' = "note"
    /\ UNCHANGED <<now, limit_orders, consume_rx, replies, sweep, consumable,
                   arrived, vault, cancel_log>>

(***************************************************************************)
(* The worker's start-up, and the handler's wait on the reply channel.     *)
(***************************************************************************)
\* the worker thread initialises the ledger client; on failure it returns,
\* dropping the receiver and with it every queued request's reply sender
WorkerInit ==
    /\ pc = "init"
    /\ \/ /\ pc' = "idle"
          /\ UNCHANGED <<consume_rx, replies>>
       \/ /\ pc' = "dead"
          /\ consume_rx' = <<>>
          /\ replies' = [r \in DOMAIN replies |->
                           IF replies[r].status = "queued"
                           THEN [replies[r] EXCEPT !.status = "dropped"]
                           ELSE replies[r]]
    /\ UNCHANGED <<now, swap_info_map, price_history, limit_orders, job, swap,
                   sweep, consumable, arrived, vault, txlog, settled, last_swap,
                   cancel_log>>

\* a handler that answers 200 whatever the worker replied
HttpCodeAlwaysOk(status) == 200

\* the status code for what the reply channel yielded
HttpCode(status) ==
    IF status = "ok" THEN 200          \* Ok(Ok(Ok(response)))
    ELSE 500                           \* Ok(Ok(Err(e))) and Ok(Err(_))

\* the reply channel yields before the 120 s are over
HandlerResponds(r) ==
    /\ replies[r].http = 0
    /\ replies[r].status \in {"ok", "err", "dropped"}
    /\ replies' = [replies EXCEPT ![r].http = HttpCode(replies[r].status)]
    /\ UNCHANGED <<now, swap_info_map, price_history, limit_orders, consume_rx,
                   pc, job, swap, sweep, consumable, arrived, vault, txlog,
                   settled, last_swap, cancel_log>>

\* the 120 s elapse first: REQUEST_TIMEOUT
HandlerTimeout(r) ==
    /\ replies[r].http = 0
    /\ replies[r].status = "queued"
    /\ replies' = [replies EXCEPT ![r].http = 408]
    /\ UNCHANGED <<now, swap_info_map, price_history, limit_orders, consume_rx,
                   pc, job, swap, sweep, consumable, arrived, vault, txlog,
                   settled, last_swap, cancel_log>>

(***************************************************************************)
(* check_limit_orders.                                                     *)
(***************************************************************************)
IsExpired(o, t) == o.status = "Pending" /\ o.expires_at < t

ExpireOrders(orders, t) ==
    [i \in DOMAIN orders |->
        IF IsExpired(orders[i], t) THEN [orders[i] EXCEPT !.status = "Expired"]
        ELSE orders[i]]

PendingOrders(orders) == SelectSeq(orders, LAMBDA o : o.status = "Pending")

\* the order a successful fill is written to
FillTarget(orders, order_id) ==
    FindFirst({k \in DOMAIN orders : orders[k].order_id = order_id})

MarkFilled(orders, order_id) ==
    LET i == FillTarget(orders, order_id)
    IN  IF i = 0 THEN orders ELSE [orders EXCEPT ![i].status = "Filled"]

\* mark expired orders under the lock, then clone the pending ones
SweepStart ==
    /\ pc = "sweep"
    /\ limit_orders' = ExpireOrders(limit_orders, now)
    /\ sweep' = PendingOrders(limit_orders')
    /\ pc' = IF sweep' = <<>> THEN "idle" ELSE "order"
    /\ UNCHANGED <<now, swap_info_map, price_history, consume_rx, replies, job,
                   swap, consumable, arrived, vault, txlog, settled, last_swap,
                   cancel_log>>

\* AMM output of the order at the current reserves and fee tier
PotentialOutput(order) ==
    LET reserve_in == vault[order.pool_id][order.sell_token_id]
        reserve_out == IF order.buy_token_id = order.sell_token_id THEN 0
                       ELSE vault[order.pool_id][order.buy_token_id]
    IN  IF reserve_in = 0 \/ reserve_out = 0 THEN -1
        ELSE AmountOut(order.amount_in, reserve_in, reserve_out,
                       calculate_dynamic_fee(price_history, order.pool_id))

\* the order triggers and its note can be looked for
Triggered(order) ==
    /\ PotentialOutput(order) # -1
    /\ PotentialOutput(order) >= order.min_amount_out
    /\ order.note_id \in DOMAIN swap_info_map
    /\ order.note_id \in ConsumableOf(order.pool_id)

SweepOutcomes == SubmitOutcomes \cup {"read_err"}

\* the loop over the pending snapshot, one order per step
OrderStep ==
    /\ pc = "order"
    /\ IF sweep = <<>>
       THEN /\ pc' = "idle"
            /\ UNCHANGED <<sweep, swap, consumable, vault, txlog, last_swap>>
       ELSE LET order == Head(sweep)
            IN  \E out \in SweepOutcomes :
                   IF out # "read_err" /\ Triggered(order)
                   THEN LET info == swap_info_map[order.note_id]
                            result == SwapResult(order.pool_id, order.note_id, info, out)
                        IN  /\ execute_p2id_swap(order.pool_id, order.note_id, info, out, TRUE)
                            /\ pc' = IF result = "submitted" THEN "fill" ELSE "order"
                            /\ sweep' = IF result = "submitted" THEN sweep ELSE Tail(sweep)
                   ELSE /\ sweep' = Tail(sweep)
                        /\ pc' = "order"
                        /\ UNCHANGED <<swap, consumable, vault, txlog, last_swap>>
    /\ UNCHANGED <<now, swap_info_map, price_history, limit_orders, consume_rx,
                   replies, job, arrived, settled, cancel_log>>

\* execute_p2id_swap returns to check_limit_orders
FillStep ==
    /\ pc = "fill"
    /\ \E w \in WaitOutcomes :
          /\ finish_p2id_swap(w)
          /\ limit_orders' = IF w = "confirmed"
                             THEN MarkFilled(limit_orders, Head(sweep).order_id)
                             ELSE limit_orders
    /\ sweep' = Tail(sweep)
    /\ pc' = "order"
    /\ UNCHANGED <<now, swap_info_map, consume_rx, replies, job, consumable,
                   arrived, vault, settled, cancel_log>>

(***************************************************************************)
(* Liquidity daemon: initial state (no user_deposits.json yet).            *)
(***************************************************************************)
LiqNoJob == [auto |-> FALSE, req |-> 0, pools |-> <<>>, notes |-> <<>>,
             total_consumed |-> 0, infos |-> EmptyMap]
NoWithdraw == [req |-> 0, pool |-> "none", user |-> "none", lp_amount |-> 0,
               max_withdrawal |-> 0, actual_lp_amount |-> 0,
               token_a_out |-> 0, token_b_out |-> 0,
               reserve_a |-> 0, reserve_b |-> 0]
LiqNoReply == [kind |-> "none", status |-> "unsent", consumed |-> 0,
               lp_amount |-> 0, max_withdrawal |-> 0,
               token_a_out |-> 0, token_b_out |-> 0, remaining |-> 0,
               reserve_a |-> 0, reserve_b |-> 0]
LiqRequests == 1..(MaxLiqConsumes + MaxWithdraws)
DepositKeys == Users \X PoolSet

\* user_deposits.json: absent, a JSON object of entries, or cut short
NoFile == [state |-> "absent", entries |-> {}]

\* serde_json::to_string_pretty: one member per key, the struct's fields
Serialize(deps) ==
    {<<k[1] \o ":" \o k[2], deps[k].total_deposited, deps[k].deposit_count>> :
        k \in DOMAIN deps}

\* serde_json::from_str into HashMap<String, UserPoolDeposit>
Parse(entries) ==
    LET KeyOf(e) == CHOOSE k \in DepositKeys : k[1] \o ":" \o k[2] = e[1]
        keys == {KeyOf(e) : e \in entries}
        EntryOf(k) == CHOOSE e \in entries : KeyOf(e) = k
    IN  [k \in keys |-> [total_deposited |-> EntryOf(k)[2],
                          deposit_count |-> EntryOf(k)[3]]]

\* read_to_string failed: empty map; parse failed: unwrap_or_default
load_user_deposits(file) ==
    IF file.state = "json" THEN Parse(file.entries) ELSE EmptyMap

\* let _ = fs::write(..): the file is replaced, or the open fails and the
\* file stays, or the file is truncated and the write fails; no outcome is
\* reported to the caller
save_user_deposits(file, deps) ==
    CASE disk = "ok" -> [state |-> "json", entries |-> Serialize(deps)]
      [] disk = "readonly" -> file
      [] disk = "full" -> [state |-> "truncated", entries |-> {}]

LiqInit ==
    /\ deposit_info_map = EmptyMap
    /\ user_deposits = EmptyMap
    /\ deposits_file = NoFile
    /\ worker_rx = <<>>
    /\ liq_replies = [r \in LiqRequests |-> LiqNoReply]
    /\ liq_pc = "idle"
    /\ liq_job = LiqNoJob
    /\ wd = NoWithdraw
    /\ liq_consumable = {}
    /\ liq_arrived = {}
    /\ liq_vault = [p \in PoolSet |-> [t \in Tokens |-> IF t = "A" THEN 1000 ELSE 3000]]
    /\ liq_txlog = <<>>
    /\ credited = [k \in DepositKeys |-> 0]

DepositArrives(n) ==
    /\ n \notin liq_arrived
    /\ liq_arrived' = liq_arrived \cup {n}
    /\ liq_consumable' = liq_consumable \cup {n}
    /\ UNCHANGED <<deposit_info_map, user_deposits, deposits_file, worker_rx,
                   liq_replies, liq_pc, liq_job, wd, liq_vault, liq_txlog, credited>>

(***************************************************************************)
(* HTTP handlers of the liquidity daemon.                                  *)
(***************************************************************************)
\* POST /track_note with deposit_info
liq_track_note_handler(note_id, deposit_info) ==
    /\ deposit_info_map' = MapInsert(deposit_info_map, note_id, deposit_info)
    /\ UNCHANGED <<user_deposits, deposits_file, worker_rx, liq_replies, liq_pc,
                   liq_job, wd, liq_consumable, liq_arrived, liq_vault,
                   liq_txlog, credited>>

LiqSent(kind) == {r \in LiqRequests : liq_replies[r].kind = kind}
LiqNextReq == Cardinality({r \in LiqRequests : liq_replies[r].status # "unsent"}) + 1

\* POST /consume: the request carries a clone of deposit_info_map
liq_consume_handler(pool_id_opt) ==
    /\ Cardinality(LiqSent("consume")) < MaxLiqConsumes
    /\ worker_rx' = Append(worker_rx,
                           [kind |-> "consume", id |-> LiqNextReq,
                            pool_id_opt |-> pool_id_opt,
                            deposit_info_map |-> deposit_info_map,
                            user |-> "none", lp_amount |-> 0])
    /\ liq_replies' = [liq_replies EXCEPT ![LiqNextReq] =
                          [LiqNoReply EXCEPT !.kind = "consume", !.status = "queued"]]
    /\ UNCHANGED <<deposit_info_map, user_deposits, deposits_file, liq_pc,
                   liq_job, wd, liq_consumable, liq_arrived, liq_vault,
                   liq_txlog, credited>>

\* POST /withdraw with valid ids and lp_amount > 0
withdraw_handler(pool_id, user_id, lp_amount) ==
    /\ Cardinality(LiqSent("withdraw")) < MaxWithdraws
    /\ worker_rx' = Append(worker_rx,
                           [kind |-> "withdraw", id |-> LiqNextReq,
                            pool_id_opt |-> pool_id,
                            deposit_info_map |-> EmptyMap,
                            user |-> user_id, lp_amount |-> lp_amount])
    /\ liq_replies' = [liq_replies EXCEPT ![LiqNextReq] =
                          [LiqNoReply EXCEPT !.kind = "withdraw", !.status = "queued",
                                             !.lp_amount = lp_amount]]
    /\ UNCHANGED <<deposit_info_map, user_deposits, deposits_file, liq_pc,
                   liq_job, wd, liq_consumable, liq_arrived, liq_vault,
                   liq_txlog, credited>>

(***************************************************************************)
(* The worker of the liquidity daemon: consume_pool_notes.                 *)
(***************************************************************************)
LiqConsumableOf(pool) == {n \in liq_consumable : DepositPool[n] = pool}

\* try_recv() returned WorkerRequest::Consume
LiqRecvConsume ==
    /\ liq_pc = "idle"
    /\ worker_rx # <<>>
    /\ Head(worker_rx).kind = "consume"
    /\ LET req == Head(worker_rx)
       IN  /\ worker_rx' = Tail(worker_rx)
           /\ IF req.pool_id_opt = "bad"
              THEN /\ liq_replies' = [liq_replies EXCEPT ![req.id].status = "err"]
                   /\ UNCHANGED <<liq_pc, liq_job>>
              ELSE /\ liq_job' = [auto |-> FALSE, req |-> req.id,
                                  pools |-> PoolsOf(req.pool_id_opt),
                                  notes |-> <<>>, total_consumed |-> 0,
                                  infos |-> req.deposit_info_map]
                   /\ liq_pc' = "pool"
                   /\ UNCHANGED liq_replies
    /\ UNCHANGED <<deposit_info_map, user_deposits, deposits_file, wd,
                   liq_consumable, liq_arrived, liq_vault, liq_txlog, credited>>

\* try_recv() was Empty and 15 s have elapsed: clone the map, scan both pools
LiqAutoPoll ==
    /\ liq_pc = "idle"
    /\ worker_rx = <<>>
    /\ liq_job' = [auto |-> TRUE, req |-> 0, pools |-> Pools, notes |-> <<>>,
                   total_consumed |-> 0, infos |-> deposit_info_map]
    /\ liq_pc' = "pool"
    /\ UNCHANGED <<deposit_info_map, user_deposits, deposits_file, worker_rx,
                   liq_replies, wd, liq_consumable, liq_arrived, liq_vault,
                   liq_txlog, credited>>

LiqConsumeReturns(status) ==
    /\ liq_job' = LiqNoJob
    /\ liq_pc' = "idle"
    /\ IF liq_job.auto
       THEN UNCHANGED liq_replies
       ELSE liq_replies' = [liq_replies EXCEPT
                              ![liq_job.req].status = status,
                              ![liq_job.req].consumed =
                                  IF status = "ok" THEN liq_job.total_consumed ELSE 0]

LiqPoolStep ==
    /\ liq_pc = "pool"
    /\ IF liq_job.pools = <<>>
       THEN LiqConsumeReturns("ok")
       ELSE \/ LiqConsumeReturns("err")
            \/ \E q \in Orderings(LiqConsumableOf(Head(liq_job.pools))) :
                  /\ UNCHANGED liq_replies
                  /\ IF q = <<>>
                     THEN /\ liq_job' = [liq_job EXCEPT !.pools = Tail(liq_job.pools)]
                          /\ liq_pc' = "pool"
                     ELSE /\ liq_job' = [liq_job EXCEPT !.notes = q]
                          /\ liq_pc' = "note"
    /\ UNCHANGED <<deposit_info_map, user_deposits, deposits_file, worker_rx, wd,
                   liq_consumable, liq_arrived, liq_vault, liq_txlog, credited>>

\* whether the deposit is tracked for the outcome of the 30 s wait
DepositTracked(out) == out \in {"confirmed", "timeout"}

\* entry(key).or_insert(..) then total_deposited += amount, deposit_count += 1
CreditDeposit(deps, key, amount) ==
    LET old == IF key \in DOMAIN deps THEN deps[key]
               ELSE [total_deposited |-> 0, deposit_count |-> 0]
    IN  MapInsert(deps, key, [total_deposited |-> old.total_deposited + amount,
                              deposit_count |-> old.deposit_count + 1])

LiqTx(pool, note, auto) ==
    [pool |-> pool, input |-> note, to |-> "none", asset |-> "none", amount |-> 0,
     auto |-> auto, had_intent |-> note \in DOMAIN deposit_info_map,
     status |-> "submitted"]

\* the note loop: every listed note is submitted for consumption, with or
\* without deposit info and whatever auto_poll is; then the wait and the tracking
LiqNoteStep ==
    /\ liq_pc = "note"
    /\ IF liq_job.notes = <<>>
       THEN /\ liq_job' = [liq_job EXCEPT !.pools = Tail(liq_job.pools)]
            /\ liq_pc' = "pool"
            /\ UNCHANGED <<user_deposits, deposits_file, liq_consumable,
                           liq_vault, liq_txlog, credited>>
       ELSE LET note == Head(liq_job.notes)
                pool == Head(liq_job.pools)
                has_info == note \in DOMAIN liq_job.infos
                key == <<liq_job.infos[note].user_account_id, pool>>
                amount == liq_job.infos[note].amount
            IN  /\ liq_pc' = "note"
                /\ \E out \in PlainOutcomes :
                     IF out = "submit_err" \/ note \notin liq_consumable
                     THEN /\ liq_job' = [liq_job EXCEPT !.notes = Tail(liq_job.notes)]
                          /\ UNCHANGED <<user_deposits, deposits_file, liq_consumable,
                                         liq_vault, liq_txlog, credited>>
                     ELSE /\ liq_txlog' = Append(liq_txlog,
                                 [LiqTx(pool, note, liq_job.auto) EXCEPT !.status = out])
                          /\ liq_vault' = [liq_vault EXCEPT
                                 ![pool][DepositToken[note]] = @ + DepositAmount[note]]
                          /\ liq_consumable' = liq_consumable \ {note}
                          /\ liq_job' = [liq_job EXCEPT
                                 !.notes = Tail(liq_job.notes),
                                 !.total_consumed = IF DepositTracked(out) THEN @ + 1 ELSE @]
                          /\ IF DepositTracked(out) /\ has_info /\ amount > 0
                             THEN /\ user_deposits' = CreditDeposit(user_deposits, key, amount)
                                  /\ deposits_file' = save_user_deposits(deposits_file, user_deposits')
                                  /\ credited' = [credited EXCEPT ![key] = @ + amount]
                             ELSE UNCHANGED <<user_deposits, deposits_file, credited>>
    /\ UNCHANGED <<deposit_info_map, worker_rx, liq_replies, wd, liq_arrived>>

(***************************************************************************)
(* execute_withdraw.                                                       *)
(***************************************************************************)
TrackedDeposit(deps, key) == IF key \in DOMAIN deps THEN deps[key].total_deposited ELSE 0

\* a withdrawal that pays out of the requested amount
Unclamped(lp_amount, max_withdrawal) == lp_amount

\* Clamp lp_amount to the user's max withdrawal
ClampWithdrawal(lp_amount, max_withdrawal) == Min(lp_amount, max_withdrawal)

\* proportional payout of one reserve leg
PayoutLeg(actual_lp_amount, reserve, total_liquidity) ==
    (actual_lp_amount * reserve) \div total_liquidity

VaultAssets(v) == {t \in Tokens : v[t] > 0}

PayoutTx(pool, user, asset, amount) ==
    [pool |-> pool, input |-> "none", to |-> user, asset |-> asset,
     amount |-> amount, auto |-> FALSE, had_intent |-> FALSE, status |-> "submitted"]

\* Deduct withdrawn amount from user's tracked deposits
DeductWithdrawn(deps, key, withdrawn) ==
    IF key \notin DOMAIN deps THEN deps
    ELSE [deps EXCEPT ![key].total_deposited = IF withdrawn >= @ THEN 0 ELSE @ - withdrawn]

WithdrawFails(id) ==
    /\ liq_replies' = [liq_replies EXCEPT ![id].status = "err"]
    /\ liq_pc' = "idle"
    /\ wd' = NoWithdraw

LedgerOutcomes == {"ok", "sync_err", "submit_err"}

\* try_recv() returned WorkerRequest::Withdraw: execute_withdraw up to the
\* wait for the token A transaction
WithdrawLegA ==
    /\ liq_pc = "idle"
    /\ worker_rx # <<>>
    /\ Head(worker_rx).kind = "withdraw"
    /\ worker_rx' = Tail(worker_rx)
    /\ LET req == Head(worker_rx)
           pool == req.pool_id_opt
           key == <<req.user, pool>>
           max_withdrawal == TrackedDeposit(user_deposits, key)
           actual_lp_amount == ClampWithdrawal(req.lp_amount, max_withdrawal)
           reserve_a == liq_vault[pool]["A"]
           reserve_b == liq_vault[pool]["B"]
           total_liquidity == reserve_a + reserve_b
           token_a_out == PayoutLeg(actual_lp_amount, reserve_a, total_liquidity)
           token_b_out == PayoutLeg(actual_lp_amount, reserve_b, total_liquidity)
       IN  \E out \in LedgerOutcomes :
              IF \/ max_withdrawal = 0
                 \/ out = "sync_err"
                 \/ Cardinality(VaultAssets(liq_vault[pool])) < 2
                 \/ (token_a_out = 0 /\ token_b_out = 0)
                 \/ (token_a_out > 0 /\ (out = "submit_err" \/ token_a_out > reserve_a))
              THEN /\ WithdrawFails(req.id)
                   /\ UNCHANGED <<liq_vault, liq_txlog>>
              ELSE /\ wd' = [req |-> req.id, pool |-> pool, user |-> req.user,
                             lp_amount |-> req.lp_amount,
                             max_withdrawal |-> max_withdrawal,
                             actual_lp_amount |-> actual_lp_amount,
                             token_a_out |-> token_a_out, token_b_out |-> token_b_out,
                             reserve_a |-> reserve_a, reserve_b |-> reserve_b]
                   /\ liq_pc' = "withdraw_b"
                   /\ UNCHANGED liq_replies
                   /\ IF token_a_out > 0
                      THEN /\ liq_txlog' = Append(liq_txlog,
                                                  PayoutTx(pool, req.user, "A", token_a_out))
                           /\ liq_vault' = [liq_vault EXCEPT ![pool]["A"] = @ - token_a_out]
                      ELSE UNCHANGED <<liq_vault, liq_txlog>>
    /\ UNCHANGED <<deposit_info_map, user_deposits, deposits_file, liq_job,
                   liq_consumable, liq_arrived, credited>>

\* the token B transaction, then the deduction and the reply
WithdrawLegB ==
    /\ liq_pc = "withdraw_b"
    /\ LET key == <<wd.user, wd.pool>>
           deducted == DeductWithdrawn(user_deposits, key, wd.token_a_out + wd.token_b_out)
       IN  \E out \in LedgerOutcomes :
              IF wd.token_b_out > 0
                   /\ (out # "ok" \/ wd.token_b_out > liq_vault[wd.pool]["B"])
              THEN /\ WithdrawFails(wd.req)
                   /\ UNCHANGED <<liq_vault, liq_txlog, user_deposits, deposits_file>>
              ELSE /\ IF wd.token_b_out > 0
                      THEN /\ liq_txlog' = Append(liq_txlog,
                                  PayoutTx(wd.pool, wd.user, "B", wd.token_b_out))
                           /\ liq_vault' = [liq_vault EXCEPT ![wd.pool]["B"] = @ - wd.token_b_out]
                      ELSE UNCHANGED <<liq_vault, liq_txlog>>
                   /\ user_deposits' = deducted
                   /\ deposits_file' = IF key \in DOMAIN user_deposits
                                       THEN save_user_deposits(deposits_file, deducted)
                                       ELSE deposits_file
                   /\ liq_replies' = [liq_replies EXCEPT ![wd.req] =
                          [kind |-> "withdraw", status |-> "ok", consumed |-> 0,
                           lp_amount |-> wd.lp_amount,
                           max_withdrawal |-> wd.max_withdrawal,
                           token_a_out |-> wd.token_a_out,
                           token_b_out |-> wd.token_b_out,
                           remaining |-> TrackedDeposit(deducted, key),
                           reserve_a |-> wd.reserve_a, reserve_b |-> wd.reserve_b]]
                   /\ liq_pc' = "idle"
                   /\ wd' = NoWithdraw
    /\ UNCHANGED <<deposit_info_map, worker_rx, liq_job, liq_consumable,
                   liq_arrived, credited>>

(***************************************************************************)
(* Specifications.  Init starts both daemons; each specification runs one  *)
(* scenario and leaves the other daemon's state alone.                     *)
(***************************************************************************)
OrderIds == {OrderId(n, t) : n \in Notes, t \in 0..MaxTime}
OrderNotes == {"n1"}

NoProbe == [op |-> "none"]
\* stale: the notes whose swap failed with a state mismatch since the worker
\* last left the top of its loop; swept_at: when check_limit_orders last
\* returned (the worker's start, before the first sweep)
NoCycle == [stale |-> {}, swept_at |-> 0]
Daemons == {"swap", "liquidity"}
EngineAuxInit == last_poll = 0 /\ cycle = NoCycle /\ serving = Daemons
AuxInit == disk = "ok" /\ probe = NoProbe /\ EngineAuxInit

Init == SwapInit /\ LiqInit /\ AuxInit

\* the swap daemon serving /track_note and /consume, with its periodic scan
\* (no limit orders; the clock, which these steps read only to stamp price
\* samples, stands still)
Next ==
    /\ UNCHANGED <<liqVars, auxVars>>
    /\ \/ \E n \in Notes : NoteArrives(n)
       \/ \E n \in Notes, info \in SwapInfos : track_note_handler(n, info)
       \/ \E opt \in {"none", "bad"} : consume_handler(opt)
       \/ WorkerRecv
       \/ WorkerAutoPoll
       \/ PoolStep
       \/ NoteStep
       \/ AwaitStep
       \/ SweepStart

Spec == Init /\ [][Next]_vars

\* the swap daemon serving the limit-order endpoints, with its periodic scan
\* and sweep
OrderNext ==
    /\ UNCHANGED <<liqVars, auxVars>>
    /\ \/ Tick
       \/ \E n \in OrderNotes : NoteArrives(n)
       \/ \E n \in OrderNotes, info \in SwapInfos, e \in ExpiresIn :
             create_limit_order_handler(n, info, e)
       \/ \E oid \in OrderIds : cancel_limit_order_handler(oid)
       \/ WorkerAutoPoll
       \/ PoolStep
       \/ NoteStep
       \/ AwaitStep
       \/ SweepStart
       \/ OrderStep
       \/ FillStep

OrderSpec == Init /\ [][OrderNext]_vars

\* the liquidity daemon serving /track_note and /consume, with its periodic scan
LiqNext ==
    /\ UNCHANGED <<swapVars, auxVars>>
    /\ \/ \E n \in DepositNotes : DepositArrives(n)
       \/ \E n \in DepositNotes, info \in DepositInfos : liq_track_note_handler(n, info)
       \/ \E opt \in PoolOpts : liq_consume_handler(opt)
       \/ LiqRecvConsume
       \/ LiqAutoPoll
       \/ LiqPoolStep
       \/ LiqNoteStep

LiqSpec == Init /\ [][LiqNext]_vars

\* the liquidity daemon serving /track_note and /withdraw, with its periodic scan
WithdrawNext ==
    /\ UNCHANGED <<swapVars, auxVars>>
    /\ \/ \E n \in DepositNotes : DepositArrives(n)
       \/ \E n \in DepositNotes, info \in DepositInfos : liq_track_note_handler(n, info)
       \/ \E u \in Users, lp \in LpAmounts : withdraw_handler("milo", u, lp)
       \/ LiqAutoPoll
       \/ LiqPoolStep
       \/ LiqNoteStep
       \/ WithdrawLegA
       \/ WithdrawLegB

WithdrawSpec == Init /\ [][WithdrawNext]_vars

\* the swap daemon from the moment the HTTP server is up, the worker still
\* initialising: /track_note and /consume with the handlers' bounded wait
GatewayNotes == {"n1"}
GatewayInit ==
    /\ LiqInit
    /\ AuxInit
    /\ pc = "init"
    /\ now = 0
    /\ swap_info_map = EmptyMap
    /\ price_history = <<>>
    /\ limit_orders = <<>>
    /\ consume_rx = <<>>
    /\ replies = [r \in 1..MaxRequests |-> NoReply]
    /\ job = NoJob
    /\ swap = NoSwap
    /\ sweep = <<>>
    /\ consumable = {}
    /\ arrived = {}
    /\ vault = [p \in PoolSet |-> [t \in Tokens |-> 1000]]
    /\ txlog = <<>>
    /\ settled = [n \in Notes |-> 0]
    /\ last_swap = NoResult
    /\ cancel_log = <<>>

WorkerStep ==
    \/ WorkerInit
    \/ WorkerRecv
    \/ WorkerAutoPoll
    \/ PoolStep
    \/ NoteStep
    \/ AwaitStep
    \/ SweepStart

HandlerStep == \E r \in 1..MaxRequests : HandlerResponds(r) \/ HandlerTimeout(r)

GatewayNext ==
    /\ UNCHANGED <<liqVars, auxVars>>
    /\ \/ \E n \in GatewayNotes : NoteArrives(n)
       \/ \E n \in GatewayNotes, info \in SwapInfos : track_note_handler(n, info)
       \/ \E opt \in {"none", "bad"} : consume_handler(opt)
       \/ WorkerStep
       \/ HandlerStep

GatewaySpec == GatewayInit /\ [][GatewayNext]_vars

\* the worker thread keeps running and a waiting handler returns
GatewayFairSpec ==
    /\ GatewaySpec
    /\ WF_vars(UNCHANGED <<liqVars, auxVars>> /\ WorkerStep)
    /\ WF_vars(UNCHANGED <<liqVars, auxVars>> /\ HandlerStep)

(***************************************************************************)
(* Properties.                                                             *)
(***************************************************************************)
Terminal == {"Filled", "Expired", "Cancelled"}
InputCount(n) == Cardinality({i \in DOMAIN txlog : txlog[i].input = n})
ReportedConsumed ==
    SeqSum([r \in 1..MaxRequests |-> replies[r].consumed])

\* the worker is about to process a note in the note loop
AtNote == pc = "note" /\ job.notes # <<>>
WorkerMoves == <<pc, job, swap>>' # <<pc, job, swap>>

\* C1: a note is the input of at most one transaction and is counted as
\* consumed at most once, whatever the interleaving of /consume requests and
\* auto-polls; a confirmed swap of the note is counted exactly once and leaves
\* the note unconsumable, and all replies together report no more settlements
\* than took place.
C1_ExactlyOnce ==
    /\ \A n \in Notes :
          /\ InputCount(n) <= 1
          /\ settled[n] <= 1
          /\ settled[n] = 1 => (n \notin consumable /\ InputCount(n) = 1)
    /\ \A i \in DOMAIN txlog :
          (txlog[i].has_output /\ txlog[i].status = "confirmed")
              => settled[txlog[i].input] = 1
    /\ ReportedConsumed <= Cardinality({n \in Notes : settled[n] = 1})

\* two /consume requests were answered: one settled the swap, the other found
\* nothing to consume
C1_Witness ==
    /\ replies[1].status = "ok" /\ replies[1].consumed = 1
    /\ replies[2].status = "ok" /\ replies[2].consumed = 0
    /\ \E i \in DOMAIN txlog : txlog[i].has_output /\ txlog[i].status = "confirmed"

\* C2: every transaction that consumes a note whose intent is registered
\* carries the payout note to the requester in the same transaction.
C2_AtomicSwap ==
    \A i \in DOMAIN txlog :
        txlog[i].had_intent =>
            /\ txlog[i].has_output
            /\ txlog[i].to \in {info.user_account_id : info \in SwapInfos}
            /\ txlog[i].asset \in Tokens
            /\ txlog[i].amount > 0

\* the engine is waiting for the confirmation of a swap transaction
C2_Witness ==
    /\ pc = "await"
    /\ txlog # <<>>
    /\ txlog[Len(txlog)].had_intent
    /\ txlog[Len(txlog)].has_output
    /\ txlog[Len(txlog)].status = "submitted"

\* C3: when the worker processes a note whose intent's minimum exceeds the
\* computed output, that step submits nothing, keeps the intent, records no
\* price sample and counts nothing.
SlippageCase ==
    /\ AtNote
    /\ Head(job.notes) \in DOMAIN swap_info_map
    /\ ReserveIn(Head(job.pools), swap_info_map[Head(job.notes)]) # 0
    /\ ReserveOut(Head(job.pools), swap_info_map[Head(job.notes)]) # 0
    /\ Quote(Head(job.pools), swap_info_map[Head(job.notes)])
          < swap_info_map[Head(job.notes)].min_amount_out

C3_SlippageRejection ==
    [][(SlippageCase /\ WorkerMoves) =>
          /\ UNCHANGED <<txlog, swap_info_map, price_history, settled,
                         consumable, vault>>
          /\ job'.total_consumed = job.total_consumed
          /\ pc' = "note"]_vars

\* the spec's example: reserves (1000, 1000), fee 10 bps, amount_in 100, the
\* true output 90 and a minimum of 91
C3_Witness ==
    /\ last_swap.result = "slippage"
    /\ last_swap.reserve_in = 1000 /\ last_swap.reserve_out = 1000
    /\ last_swap.fee_bps = 10
    /\ last_swap.amount_out = 90 /\ last_swap.min_amount_out = 91
    /\ AmountOut(100, 1000, 1000, 10) = 90
    /\ last_swap.note \in DOMAIN swap_info_map
    /\ last_swap.note \in consumable
    /\ txlog = <<>> /\ price_history = <<>>

\* C4: no transaction submitted by the periodic scan consumes a note that had
\* no registry entry when it was processed, and the scan's step on such a note
\* leaves the note consumable.
UnknownNoteInAutoPoll ==
    /\ AtNote
    /\ job.auto
    /\ Head(job.notes) \notin DOMAIN swap_info_map

C4_AutoPollSkipsUnknown ==
    /\ [](\A i \in DOMAIN txlog : txlog[i].auto => txlog[i].had_intent)
    /\ [][(UnknownNoteInAutoPoll /\ WorkerMoves) =>
             UNCHANGED <<txlog, consumable, vault>>]_vars

\* the periodic scan has just skipped a note that is still consumable
C4_Witness ==
    /\ last_swap.result = "skipped"
    /\ last_swap.auto
    /\ last_swap.note \in consumable
    /\ last_swap.note \notin DOMAIN swap_info_map

\* C5: no transaction submitted by the liquidity daemon's periodic scan
\* consumes a note without a registered deposit intent.
C5_LiqAutoPollSkipsUnknown ==
    \A i \in DOMAIN liq_txlog :
        (liq_txlog[i].auto /\ liq_txlog[i].input # "none") => liq_txlog[i].had_intent

\* C6: an order whose status is Filled, Expired or Cancelled keeps it.
C6_TerminalFinal ==
    [][\A i \in DOMAIN limit_orders :
          limit_orders[i].status \in Terminal
              => limit_orders'[i].status = limit_orders[i].status]_vars

\* C7: a sweep marks every Pending order past its expiry Expired before it
\* evaluates any fill, and an Expired order never becomes Filled.
C7_ExpiredNeverFilled ==
    [][/\ (pc = "sweep" /\ pc' # "sweep") =>
              \A i \in DOMAIN limit_orders :
                  IsExpired(limit_orders[i], now) => limit_orders'[i].status = "Expired"
       /\ \A i \in DOMAIN limit_orders :
              limit_orders[i].status = "Expired" => limit_orders'[i].status # "Filled"]_vars

\* C8: a cancel request changes the book only by moving one Pending order
\* with the requested id to Cancelled (answer 200); when no Pending order has
\* that id it answers 404 and the book is unchanged.
Changed == {i \in DOMAIN limit_orders : limit_orders'[i] # limit_orders[i]}

C8_CancelOnlyPending ==
    [][Len(cancel_log') = Len(cancel_log) + 1 =>
          LET answer == cancel_log'[Len(cancel_log')]
              pending == {i \in DOMAIN limit_orders :
                             /\ limit_orders[i].order_id = answer.order_id
                             /\ limit_orders[i].status = "Pending"}
          IN  /\ Len(limit_orders') = Len(limit_orders)
              /\ IF pending # {}
                 THEN /\ answer.code = 200
                      /\ \E i \in pending :
                            /\ Changed = {i}
                            /\ limit_orders'[i] =
                                  [limit_orders[i] EXCEPT !.status = "Cancelled"]
                 ELSE /\ answer.code = 404
                      /\ Changed = {}]_vars

\* a cancel of an order that was already terminal was answered 404
C8_Witness ==
    \E k \in DOMAIN cancel_log :
        /\ cancel_log[k].code = 404
        /\ \E i \in DOMAIN limit_orders :
              /\ limit_orders[i].order_id = cancel_log[k].order_id
              /\ limit_orders[i].status \in {"Expired", "Filled"}

\* C9: for every user and pool, the payouts submitted to the user never
\* exceed what was credited to the user's tracked deposit.
RECURSIVE PaidIn(_, _)
PaidIn(log, key) ==
    IF log = <<>> THEN 0
    ELSE (IF Head(log).to = key[1] /\ Head(log).pool = key[2] THEN Head(log).amount ELSE 0)
           + PaidIn(Tail(log), key)

C9_AntiDrain == \A key \in DepositKeys : PaidIn(liq_txlog, key) <= credited[key]

\* C10 as stated: after a completed withdrawal that asked for more than the
\* tracked deposit, the tracked balance is 0.
ClampedWithdrawals ==
    {r \in LiqRequests : /\ liq_replies[r].kind = "withdraw"
                         /\ liq_replies[r].status = "ok"
                         /\ liq_replies[r].lp_amount > liq_replies[r].max_withdrawal}

C10_ClampToZero == \A r \in ClampedWithdrawals : liq_replies[r].remaining = 0

\* C10 amended: the payouts are computed from the tracked deposit, and the
\* tracked balance left is the deposit minus the two payouts: 0 when the
\* reserve split divides exactly, 1 otherwise.
C10_ClampedPayout ==
    \A r \in ClampedWithdrawals :
        LET w == liq_replies[r]
            total == w.reserve_a + w.reserve_b
        IN  /\ w.token_a_out = (w.max_withdrawal * w.reserve_a) \div total
            /\ w.token_b_out = (w.max_withdrawal * w.reserve_b) \div total
            /\ w.remaining = w.max_withdrawal - (w.token_a_out + w.token_b_out)
            /\ w.remaining \in {0, 1}
            /\ w.remaining = 0 <=>
                   ((w.max_withdrawal * w.reserve_a) % total = 0)

\* the spec's example: deposit 1,000, request 5,000, payouts from 1,000
C10_Witness ==
    \E r \in ClampedWithdrawals :
        /\ liq_replies[r].max_withdrawal = 1000
        /\ liq_replies[r].lp_amount = 5000
        /\ liq_replies[r].token_a_out + liq_replies[r].token_b_out = 1000
        /\ liq_replies[r].remaining = 0

\* C11: a settlement transaction whose confirmation wait ran out is counted
\* as consumed (reported as success), and its note is never the input of
\* another transaction.
C11_TimeoutIsSuccess ==
    \A i \in DOMAIN txlog :
        txlog[i].status = "timeout" =>
            /\ settled[txlog[i].input] = 1
            /\ InputCount(txlog[i].input) = 1


(***************************************************************************)
(* The liquidity daemon over restarts and file-system failures.            *)
(***************************************************************************)
DiskStates == {"ok", "readonly", "full"}

\* the file system changes under the daemon
DiskChanges ==
    /\ \E d \in DiskStates \ {disk} : disk' = d
    /\ UNCHANGED <<swapVars, liqVars, probe, engineAux>>

\* the daemon is stopped between two jobs and started again: main reloads
\* the positions from the file, the registry and the queue start empty
Restart ==
    /\ liq_pc = "idle"
    /\ user_deposits' = load_user_deposits(deposits_file)
    /\ deposit_info_map' = EmptyMap
    /\ worker_rx' = <<>>
    /\ liq_replies' = [r \in LiqRequests |->
                         IF liq_replies[r].status = "queued"
                         THEN [liq_replies[r] EXCEPT !.status = "err"]
                         ELSE liq_replies[r]]
    /\ UNCHANGED <<deposits_file, liq_pc, liq_job, wd, liq_consumable,
                   liq_arrived, liq_vault, liq_txlog, credited>>
    /\ UNCHANGED <<swapVars, auxVars>>

DurableNotes == {"d1"}
DurableLp == {300}

DurabilityNext ==
    \/ /\ UNCHANGED <<swapVars, auxVars>>
       /\ \/ \E n \in DurableNotes : DepositArrives(n)
          \/ \E n \in DurableNotes, info \in DepositInfos : liq_track_note_handler(n, info)
          \/ \E lp \in DurableLp : withdraw_handler("milo", "u1", lp)
          \/ LiqAutoPoll
          \/ LiqPoolStep
          \/ LiqNoteStep
          \/ WithdrawLegA
          \/ WithdrawLegB
    \/ DiskChanges
    \/ Restart

DurabilitySpec == Init /\ [][DurabilityNext]_vars

\* C15: whenever the worker is between two jobs, what load_user_deposits
\* reads from the file is the in-memory map of positions.
C15_FileEqualsMemory ==
    liq_pc = "idle" => load_user_deposits(deposits_file) = user_deposits

(***************************************************************************)
(* The /consume handler and the worker behind it (GatewayFairSpec).        *)
(***************************************************************************)
\* everything the worker and the ledger own: all of the swap daemon's state
\* but the handlers' answers
EngineState ==
    <<now, swap_info_map, price_history, limit_orders, consume_rx, pc, job,
      swap, sweep, consumable, arrived, vault, txlog, settled, last_swap,
      cancel_log>>

TimesOut(r) == replies[r].http = 0 /\ replies'[r].http = 408

\* C12: when a handler gives up after its wait and answers 408, nothing of
\* the worker's state changes and the request stays with the worker; the
\* worker never stops because a reply found no receiver (it is only ever
\* stopped by a failed start-up, before any work), and every queued request,
\* timed out or not, is eventually worked off by it.
C12_TimeoutDoesNotCancel ==
    /\ [][\A r \in 1..MaxRequests : TimesOut(r) =>
              /\ UNCHANGED EngineState
              /\ replies'[r].status = replies[r].status]_vars
    /\ [](pc = "dead" =>
              /\ txlog = <<>>
              /\ \A r \in 1..MaxRequests : replies[r].status \notin {"ok", "err"})
    /\ \A r \in 1..MaxRequests :
          (replies[r].status = "queued") ~> (replies[r].status # "queued")

\* the first request timed out at the gateway and was still carried out,
\* settling a note; the second request was then served and answered 200
C12_Witness ==
    /\ replies[1].http = 408
    /\ replies[1].status = "ok"
    /\ replies[1].consumed = 1
    /\ replies[2].http = 200
    /\ replies[2].status = "ok"

\* C13: a /consume request is answered once and the answer never changes:
\* 200 only for a worker reply Ok (with its consumed count), 500 only when
\* the queue was disconnected, the reply channel dropped or the worker
\* replied Err, 408 only when no reply had come; and every request received
\* is eventually answered.
C13_OneResponse ==
    /\ [](\A r \in 1..MaxRequests :
              /\ replies[r].http \in {0, 200, 408, 500}
              /\ replies[r].http = 200 => replies[r].status = "ok"
              /\ replies[r].http = 500 =>
                     replies[r].status \in {"send_failed", "dropped", "err"}
              /\ replies[r].http = 408 =>
                     replies[r].status \in {"queued", "ok", "err", "dropped"}
              /\ replies[r].status = "unsent" => replies[r].http = 0)
    /\ [][\A r \in 1..MaxRequests :
              /\ replies[r].http # 0 => replies'[r].http = replies[r].http
              /\ TimesOut(r) => replies[r].status = "queued"]_vars
    /\ \A r \in 1..MaxRequests :
          (replies[r].status # "unsent") ~> (replies[r].http # 0)

\* one request was answered 500 for a worker error, another 408
C13_Witness ==
    /\ replies[1].http = 500
    /\ replies[1].status = "err"
    /\ replies[2].http = 408


\* C14: once the transaction consuming a deposit note with a registered
\* intent is confirmed, the intent is no longer in the registry.
C14_IntentRemovedOnceSettled ==
    \A i \in DOMAIN liq_txlog :
        (liq_txlog[i].had_intent /\ liq_txlog[i].status = "confirmed")
            => liq_txlog[i].input \notin DOMAIN deposit_info_map


(***************************************************************************)
(* The pricing arithmetic at its machine widths.  A u64 or u128 value is a *)
(* little-endian sequence of WIDE_LIMBS digits of LIMB_BITS bits; the wide *)
(* form holds every exact product of the formula, the low U128_BITS bits   *)
(* are what a u128 keeps.                                                  *)
(***************************************************************************)
LIMB_BITS == 12
LIMB == 4096
U64_BITS == 64
U128_BITS == 128
WIDE_LIMBS == 13

\* a sequence of WIDE_LIMBS digits, each digit worked out once
Digits(f) == SubSeq(f, 1, WIDE_LIMBS)

RECURSIVE Pow2(_)
Pow2(e) == IF e = 0 THEN 1 ELSE 2 * Pow2(e - 1)

\* the value m * LIMB^k
Big(m, k) ==
    Digits([i \in 1..WIDE_LIMBS |->
        IF i = k + 1 THEN m % LIMB
        ELSE IF i = k + 2 THEN (m \div LIMB) % LIMB
        ELSE IF i = k + 3 THEN m \div (LIMB * LIMB)
        ELSE 0])

BigZero == Big(0, 0)

\* what a register of that many bits keeps of a value
Truncate(a, bits) ==
    Digits([i \in 1..WIDE_LIMBS |->
        IF LIMB_BITS * i <= bits THEN a[i]
        ELSE IF LIMB_BITS * (i - 1) < bits
             THEN a[i] % Pow2(bits - LIMB_BITS * (i - 1))
             ELSE 0])

U64Max == Truncate(Digits([i \in 1..WIDE_LIMBS |-> LIMB - 1]), U64_BITS)

\* the digit of a at place i, zero outside the sequence
At(a, i) == IF i >= 1 /\ i <= WIDE_LIMBS THEN a[i] ELSE 0

\* a carry enters place i when a lower place overflows and every place
\* between passes it on
CarryInto(a, b, i) ==
    \E j \in 1..(i - 1) :
        /\ a[j] + b[j] >= LIMB
        /\ \A k \in (j + 1)..(i - 1) : a[k] + b[k] = LIMB - 1

BigAdd(a, b) ==
    Digits([i \in 1..WIDE_LIMBS |->
        (a[i] + b[i] + (IF CarryInto(a, b, i) THEN 1 ELSE 0)) % LIMB])

BorrowInto(a, b, i) ==
    \E j \in 1..(i - 1) :
        /\ a[j] < b[j]
        /\ \A k \in (j + 1)..(i - 1) : a[k] = b[k]

\* a - b for a >= b
BigSub(a, b) ==
    Digits([i \in 1..WIDE_LIMBS |->
        (a[i] - b[i] - (IF BorrowInto(a, b, i) THEN 1 ELSE 0) + LIMB) % LIMB])

\* -1, 0, 1 as a < b, a = b, a > b
BigCmp(a, b) ==
    IF \A i \in 1..WIDE_LIMBS : a[i] = b[i] THEN 0
    ELSE IF \E j \in 1..WIDE_LIMBS :
                /\ a[j] < b[j]
                /\ \A k \in (j + 1)..WIDE_LIMBS : a[k] = b[k]
         THEN -1
         ELSE 1

\* digits from column sums below LIMB^2 * 8: each column keeps its low digit
\* and hands the rest to the next one, then the carries are added in
Normalize(cols) ==
    LET once == Digits([i \in 1..WIDE_LIMBS |->
                    (cols[i] % LIMB) + (At(cols, i - 1) \div LIMB)])
    IN  BigAdd(Digits([i \in 1..WIDE_LIMBS |-> once[i] % LIMB]),
               Digits([i \in 1..WIDE_LIMBS |-> At(once, i - 1) \div LIMB]))

\* the exact product a * b for b < LIMB^7 (a 78 bit by a 64 bit value, or a
\* quotient by an 80 bit denominator)
BigMul(a, b) ==
    Normalize(Digits([i \in 1..WIDE_LIMBS |->
        At(a, i) * b[1] + At(a, i - 1) * b[2] + At(a, i - 2) * b[3]
          + At(a, i - 3) * b[4] + At(a, i - 4) * b[5] + At(a, i - 5) * b[6]
          + At(a, i - 6) * b[7]]))

\* a * m for a digit m
MulSmall(a, m) == Normalize(Digits([i \in 1..WIDE_LIMBS |-> a[i] * m]))

\* rem * LIMB + limb
ShiftIn(rem, limb) == Digits([i \in 1..WIDE_LIMBS |-> IF i = 1 THEN limb ELSE rem[i - 1]])

\* the place of the leading digit of d > 0
TopLimb(d) ==
    CHOOSE t \in 1..WIDE_LIMBS : d[t] # 0 /\ \A k \in (t + 1)..WIDE_LIMBS : d[k] = 0

\* the power of two that brings the leading digit of d to LIMB / 2 or more
Scale(d) ==
    CHOOSE m \in {Pow2(s) : s \in 0..(LIMB_BITS - 1)} :
        d[TopLimb(d)] * m >= LIMB \div 2 /\ d[TopLimb(d)] * m < LIMB

\* the digit q with q * d <= rem < (q + 1) * d, for rem < d * LIMB and a
\* scaled d: it is the two-digit estimate or at most two below it
QuotientDigit(rem, d) ==
    LET t == TopLimb(d)
        estimate == Min(LIMB - 1, (At(rem, t + 1) * LIMB + rem[t]) \div d[t])
    IN  CHOOSE q \in {c \in (estimate - 2)..estimate : c >= 0} :
            /\ BigCmp(MulSmall(d, q), rem) <= 0
            /\ BigCmp(rem, BigAdd(MulSmall(d, q), d)) < 0

\* the digits of floor(n / d), most significant first, by long division
\* from the top digit of n down
RECURSIVE DivDigits(_, _, _, _)
DivDigits(n, d, i, rem) ==
    IF i = 0 THEN <<>>
    ELSE LET shifted == ShiftIn(rem, n[i])
             digit == QuotientDigit(shifted, d)
         IN  <<digit>> \o DivDigits(n, d, i - 1, BigSub(shifted, MulSmall(d, digit)))

\* floor(n / d) for n < 2^144 and 0 < d < 2^80
BigDiv(n, d) ==
    LET m == Scale(d)
    IN  Digits(Reverse(DivDigits(MulSmall(n, m), MulSmall(d, m), WIDE_LIMBS, BigZero)))

FitsU128(a) == Truncate(a, U128_BITS) = a

\* floor(amount_in * (10000 - fee) * reserve_out
\*       / (reserve_in * 10000 + amount_in * (10000 - fee))) over the integers
ExactAmountOut(amount_in, reserve_in, reserve_out, fee_bps) ==
    LET with_fee == BigMul(amount_in, Big(BPS_DENOM - fee_bps, 0))
    IN  BigDiv(BigMul(with_fee, reserve_out),
               BigAdd(BigMul(reserve_in, Big(BPS_DENOM, 0)), with_fee))

\* amount_in_with_fee * (reserve_out as u128): with overflow checks the
\* multiplication panics when the product does not fit, without them it wraps
NumeratorOutcomes(exact) ==
    IF FitsU128(exact) THEN {"value"} ELSE {"panic", "wrapped"}

\* execute_p2id_swap step 3 and check_limit_orders, as compiled: the set of
\* results the build can produce
amount_out_u64(amount_in, reserve_in, reserve_out, fee_bps) ==
    LET fee_multiplier == Big(BPS_DENOM - fee_bps, 0)
        amount_in_with_fee == BigMul(amount_in, fee_multiplier)
        exact_numerator == BigMul(amount_in_with_fee, reserve_out)
        numerator == Truncate(exact_numerator, U128_BITS)
        denominator == BigAdd(BigMul(reserve_in, Big(BPS_DENOM, 0)), amount_in_with_fee)
    IN  { IF o = "panic"
          THEN [kind |-> "panic", amount_out |-> BigZero]
          ELSE [kind |-> "ok",
                amount_out |-> Truncate(BigDiv(numerator, denominator), U64_BITS)] :
          o \in NumeratorOutcomes(exact_numerator) }

\* amount_in is the parsed string of the /track_note body, any u64; reserves
\* are vault balances, at most a faucet's max supply of 10^18 < 2^60
AmountsIn == {BigZero, Big(1, 0), Big(100000000, 0), Big(16, 3), Big(2048, 4), U64Max}
ReservesIn == {Big(1, 0), Big(2980232, 2), Big(2048, 4)}
ReservesOut == {Big(1, 0), Big(2980232, 2), Big(256, 4)}
FeeTiers == {FEE_LOW, FEE_NORMAL, FEE_HIGH}

\* two quotes against the same reserves and fee, the second for the larger input
PricingInit ==
    /\ SwapInit
    /\ LiqInit
    /\ disk = "ok"
    /\ EngineAuxInit
    /\ \E a1 \in AmountsIn, a2 \in AmountsIn, rin \in ReservesIn,
          rout \in ReservesOut, fee \in FeeTiers :
          /\ BigCmp(a1, a2) <= 0
          /\ probe = [op |-> "quote", amount_in |-> a1, amount_in_2 |-> a2,
                      reserve_in |-> rin, reserve_out |-> rout, fee_bps |-> fee]

PriceQuote ==
    /\ probe.op = "quote"
    /\ \E r1 \in amount_out_u64(probe.amount_in, probe.reserve_in,
                                probe.reserve_out, probe.fee_bps),
          r2 \in amount_out_u64(probe.amount_in_2, probe.reserve_in,
                                probe.reserve_out, probe.fee_bps) :
          probe' = [op |-> "quoted", amount_in |-> probe.amount_in,
                    amount_in_2 |-> probe.amount_in_2,
                    reserve_in |-> probe.reserve_in,
                    reserve_out |-> probe.reserve_out, fee_bps |-> probe.fee_bps,
                    first |-> r1, second |-> r2]
    /\ UNCHANGED <<swapVars, liqVars, disk, engineAux>>

PricingNext == PriceQuote

PricingSpec == PricingInit /\ [][PricingNext]_vars

Quoted == probe.op = "quoted"

\* C16: the computed output is floor(amount_in * (10000 - fee) * reserve_out
\* / (reserve_in * 10000 + amount_in * (10000 - fee))) for every u64
\* amount_in, positive reserves and fee tier, and an amount_in of 0 gives 0.
C16_PricingFormula ==
    Quoted =>
        /\ probe.first.kind = "ok"
        /\ probe.first.amount_out =
               ExactAmountOut(probe.amount_in, probe.reserve_in,
                              probe.reserve_out, probe.fee_bps)
        /\ probe.amount_in = BigZero => probe.first.amount_out = BigZero


\* C17: for the same reserves and fee the output for the larger amount_in is
\* not smaller, every output is strictly less than reserve_out, and so the
\* out-reserve after the trade is positive.
C17_MonotoneBounded ==
    Quoted =>
        /\ probe.first.kind = "ok" /\ probe.second.kind = "ok"
        /\ BigCmp(probe.first.amount_out, probe.second.amount_out) <= 0
        /\ BigCmp(probe.first.amount_out, probe.reserve_out) < 0
        /\ BigCmp(probe.second.amount_out, probe.reserve_out) < 0


(***************************************************************************)
(* TWAP oracle (twap_handler).  A price is reserve_b / reserve_a; the f64  *)
(* arithmetic is carried out in units of 10^-6.                            *)
(***************************************************************************)
DEFAULT_WINDOW == 3600
NoWindow == -1        \* query.window is None
MaxSamples == 3       \* price samples in the history of a TWAP or fee query

PriceMicro(p) ==
    (p.reserve_b \div p.reserve_a) * Pow10(SCALE_DIGITS)
        + Frac(p.reserve_b % p.reserve_a, p.reserve_a, SCALE_DIGITS)

\* a duration taken as it is
DurationUnfloored(d) == d

\* duration.max(1)
DurationFloor(d) == Max(d, 1)

\* the weight of points[i]: the time to the next point, for the last one the
\* time to now (timestamps are pushed in clock order, so no u64 underflow)
Duration(points, i, t) ==
    DurationFloor(IF i + 1 <= Len(points)
                  THEN points[i + 1].timestamp - points[i].timestamp
                  ELSE t - points[i].timestamp)

RECURSIVE WeightedSum(_, _, _)
WeightedSum(points, i, t) ==
    IF i > Len(points) THEN 0
    ELSE PriceMicro(points[i]) * Duration(points, i, t) + WeightedSum(points, i + 1, t)

\* the JSON body: twap is null or weighted_sum / total_duration
TwapResponse(history, t, pool_id, window_opt) ==
    LET window == IF window_opt = NoWindow THEN DEFAULT_WINDOW ELSE window_opt
        cutoff == Max(t - window, 0)                       \* saturating_sub
        points == SelectSeq(history,
                     LAMBDA p : p.pool_id = pool_id /\ p.timestamp >= cutoff)
        weights == [i \in 1..Len(points) |-> Duration(points, i, t)]
        total_duration == SeqSum(weights)
    IN  IF points = <<>>
        THEN [op |-> "twap", pool_id |-> pool_id, window |-> window, null |-> TRUE,
              twap |-> 0, data_points |-> 0, weights |-> <<>>]
        ELSE [op |-> "twap", pool_id |-> pool_id, window |-> window, null |-> FALSE,
              twap |-> IF total_duration > 0
                       THEN WeightedSum(points, 1, t) \div total_duration
                       ELSE PriceMicro(points[Len(points)]),
              data_points |-> Len(points), weights |-> weights]

twap_handler(pool_id, window_opt) ==
    /\ probe.op = "none"
    /\ probe' = TwapResponse(price_history, now, pool_id, window_opt)
    /\ UNCHANGED <<swapVars, liqVars, disk, engineAux>>

\* histories a run of confirmed swaps leaves behind: samples in clock order,
\* none later than now
SampleTimes == {0, 100}
SamplePrices == {[reserve_a |-> 1000, reserve_b |-> 1000],
                 [reserve_a |-> 1000, reserve_b |-> 1002],
                 [reserve_a |-> 1000, reserve_b |-> 2000]}
Samples ==
    {[timestamp |-> t, pool_id |-> p, reserve_a |-> r.reserve_a,
      reserve_b |-> r.reserve_b] :
        t \in SampleTimes, p \in PoolSet, r \in SamplePrices}
Histories ==
    {h \in UNION {[1..n -> Samples] : n \in 0..MaxSamples} :
        \A i \in 1..(Len(h) - 1) : h[i].timestamp <= h[i + 1].timestamp}
\* nine more swaps of one pool at the latest time, the price back at 1.0
RecentRun ==
    [i \in 1..(FEE_WINDOW - 1) |->
        [timestamp |-> 100, pool_id |-> "milo", reserve_a |-> 1000, reserve_b |-> 1000]]
QueryTimes == {100, 150}
Windows == {NoWindow, 0, 40, 200}

OracleInit ==
    /\ LiqInit
    /\ AuxInit
    /\ now \in QueryTimes
    /\ \E h \in Histories, run \in {<<>>, RecentRun} : price_history = h \o run
    /\ swap_info_map = EmptyMap
    /\ limit_orders = <<>>
    /\ consume_rx = <<>>
    /\ replies = [r \in 1..MaxRequests |-> NoReply]
    /\ pc = "idle"
    /\ job = NoJob
    /\ swap = NoSwap
    /\ sweep = <<>>
    /\ consumable = {}
    /\ arrived = {}
    /\ vault = [p \in PoolSet |-> [t \in Tokens |-> 1000]]
    /\ txlog = <<>>
    /\ settled = [n \in Notes |-> 0]
    /\ last_swap = NoResult
    /\ cancel_log = <<>>

TwapNext == \E pool_id \in PoolSet, window_opt \in Windows : twap_handler(pool_id, window_opt)

TwapSpec == OracleInit /\ [][TwapNext]_vars

\* the samples of the queried pool that fall in the window
InWindow ==
    {i \in DOMAIN price_history :
        /\ price_history[i].pool_id = probe.pool_id
        /\ price_history[i].timestamp >= now - probe.window}

\* the in-window sample after sample i, if there is one
NextInWindow(i) == {j \in InWindow : j > i /\ \A k \in InWindow : k > i => j <= k}

RECURSIVE SumOver(_, _)
SumOver(f, S) ==
    IF S = {} THEN 0
    ELSE LET x == CHOOSE y \in S : TRUE IN f[x] + SumOver(f, S \ {x})

\* the weight the claim gives to sample i
ClaimedWeight ==
    [i \in InWindow |->
        LET until == IF NextInWindow(i) = {} THEN now
                     ELSE price_history[CHOOSE j \in NextInWindow(i) : TRUE].timestamp
        IN  Max(until - price_history[i].timestamp, 1)]

TheExample ==
    /\ price_history = <<[timestamp |-> 0, pool_id |-> "milo",
                          reserve_a |-> 1000, reserve_b |-> 1000],
                         [timestamp |-> 100, pool_id |-> "milo",
                          reserve_a |-> 1000, reserve_b |-> 2000]>>
    /\ now = 100
    /\ probe.op = "twap" /\ probe.pool_id = "milo" /\ probe.window = 200

\* C18: the answer is null exactly when no sample of the pool has timestamp
\* >= now - window; otherwise every in-window sample is weighted by the time
\* to the next in-window sample (the last by now - its timestamp), at least
\* 1, and twap is sum(price * weight) / sum(weight), which lies between the
\* lowest and the highest in-window price; for (0, 1.0), (100, 2.0), window
\* 200, now 100 the result is within 0.02 of 1.0.
C18_Twap ==
    probe.op = "twap" =>
        /\ probe.null <=> InWindow = {}
        /\ probe.data_points = Cardinality(InWindow)
        /\ ~probe.null =>
              LET total == SumOver(ClaimedWeight, InWindow)
                  weighted == SumOver([i \in InWindow |->
                                  PriceMicro(price_history[i]) * ClaimedWeight[i]],
                                InWindow)
              IN  /\ \A k \in DOMAIN probe.weights : probe.weights[k] >= 1
                  /\ SeqSum(probe.weights) = total
                  /\ probe.twap = weighted \div total
                  /\ \E i \in InWindow : PriceMicro(price_history[i]) <= probe.twap
                  /\ \E i \in InWindow : PriceMicro(price_history[i]) >= probe.twap
        /\ TheExample => (probe.twap > 1000000 /\ probe.twap < 1020000)

\* the example of the claim has been queried: (100 * 1.0 + 1 * 2.0) / 101
C18_Witness == TheExample /\ probe.twap = 1009900


(***************************************************************************)
(* The fee estimator queried on a history (execute_p2id_swap step 2).      *)
(***************************************************************************)
dynamic_fee_step(pool_id) ==
    /\ probe.op = "none"
    /\ probe' = [op |-> "fee", pool_id |-> pool_id,
                 fee_bps |-> calculate_dynamic_fee(price_history, pool_id)]
    /\ UNCHANGED <<swapVars, liqVars, disk, engineAux>>

FeeNext == \E pool_id \in PoolSet : dynamic_fee_step(pool_id)

FeeSpec == OracleInit /\ [][FeeNext]_vars

\* the samples of the queried pool, oldest first, and the last ten of them
PoolSamples == SelectSeq(price_history, LAMBDA p : p.pool_id = probe.pool_id)
LastTen ==
    SubSeq(PoolSamples, Max(Len(PoolSamples) - 9, 1), Len(PoolSamples))

\* consecutive relative changes among the last ten, in units of 10^-6, and
\* their distances from the mean: the standard deviation s lies between the
\* smallest and the largest distance
Changes == [i \in 1..(Len(LastTen) - 1) |-> RelChange(LastTen[i + 1], LastTen[i])]
Deviations ==
    LET mean == SeqSum(Changes) \div Len(Changes)
    IN  {Abs(Changes[i] - mean) : i \in DOMAIN Changes}

\* C19: the fee is one of 5, 10, 30 bps and depends only on the last ten
\* samples of the pool; with fewer than 2 samples it is 10; otherwise it is
\* 5 only if the standard deviation s of the relative changes can be below
\* 0.001, 30 only if s can be at least 0.01, 10 only if s can lie in
\* [0.001, 0.01), and it is the tier of s whenever all distances from the
\* mean fall in one tier (a distance of exactly 0.001 or 0.01 counts for the
\* higher tier).
C19_FeeTier ==
    probe.op = "fee" =>
        /\ probe.fee_bps \in {5, 10, 30}
        /\ probe.fee_bps = calculate_dynamic_fee(LastTen, probe.pool_id)
        /\ Len(PoolSamples) < 2 => probe.fee_bps = 10
        /\ Len(PoolSamples) >= 2 =>
              /\ (\A d \in Deviations : d < 1000) => probe.fee_bps = 5
              /\ (\A d \in Deviations : d >= 1000 /\ d < 10000) => probe.fee_bps = 10
              /\ (\A d \in Deviations : d >= 10000) => probe.fee_bps = 30
              /\ probe.fee_bps = 5 => \E d \in Deviations : d < 1000
              /\ probe.fee_bps = 10 =>
                     /\ \E d \in Deviations : d >= 1000
                     /\ \E d \in Deviations : d < 10000
              /\ probe.fee_bps = 30 => \E d \in Deviations : d >= 10000

\* eleven samples of the pool, the oldest at twice the price of the ten that
\* follow: the fee is the low tier, the old sample is not looked at
C19_Witness ==
    /\ probe.op = "fee"
    /\ Len(PoolSamples) = 11
    /\ PriceMicro(PoolSamples[1]) = 2000000
    /\ \A i \in 2..11 : PriceMicro(PoolSamples[i]) = 1000000
    /\ probe.fee_bps = 5


(***************************************************************************)
(* Frame of a swap's outcome on the registry and the price history.        *)
(***************************************************************************)
\* this step observes the swap transaction of note n confirmed
ConfirmedNow(n) ==
    /\ txlog # <<>>
    /\ Len(txlog') = Len(txlog)
    /\ txlog[Len(txlog)].input = n
    /\ txlog[Len(txlog)].has_output
    /\ txlog[Len(txlog)].status = "submitted"
    /\ txlog'[Len(txlog)].status = "confirmed"

IntentRemoved(n) == n \in DOMAIN swap_info_map /\ n \notin DOMAIN swap_info_map'

\* C20: a step removes the intent of a note exactly when it observes the
\* note's swap transaction confirmed, and that same step appends exactly one
\* price sample, for the note's pool; no other step changes the price history.
C20_RemovedIffConfirmed ==
    [][/\ \A n \in Notes :
             /\ IntentRemoved(n) <=> ConfirmedNow(n)
             /\ ConfirmedNow(n) =>
                   /\ Len(price_history') = Len(price_history) + 1
                   /\ SubSeq(price_history', 1, Len(price_history)) = price_history
                   /\ price_history'[Len(price_history')].pool_id = NotePool[n]
       /\ price_history' # price_history => \E n \in Notes : ConfirmedNow(n)]_vars

(***************************************************************************)
(* The limit-order sweep (OrderSpec).                                      *)
(***************************************************************************)
BecomesFilled(i) ==
    limit_orders[i].status = "Pending" /\ limit_orders'[i].status = "Filled"

\* the worker takes a step of check_limit_orders' loop over the snapshot
SweepLoopStep == pc \in {"order", "fill"} /\ <<pc, sweep>>' # <<pc, sweep>>

\* C21: a Pending order becomes Filled only in the sweep step that sees the
\* swap of its source note confirmed, a swap whose output, computed from the
\* reserves and fee tier read in that sweep, is at least the order's minimum;
\* every other step of the sweep's loop leaves each Pending order Pending.
C21_FillRule ==
    [][\A i \in DOMAIN limit_orders :
          /\ BecomesFilled(i) =>
                /\ pc = "fill"
                /\ ConfirmedNow(limit_orders[i].note_id)
                /\ swap.amount_out =
                       AmountOut(limit_orders[i].amount_in, swap.reserve_in,
                                 swap.reserve_out, last_swap.fee_bps)
                /\ swap.amount_out >= limit_orders[i].min_amount_out
          /\ (SweepLoopStep /\ limit_orders[i].status = "Pending"
                /\ ~(pc = "fill" /\ ConfirmedNow(limit_orders[i].note_id)))
                => limit_orders'[i].status = "Pending"]_vars

(***************************************************************************)
(* Withdrawal accounting (WithdrawSpec).                                   *)
(***************************************************************************)
\* execute_withdraw returns in this step, with a reply or an error
WithdrawCompletes == liq_pc = "withdraw_b" /\ liq_pc' = "idle"

\* the amounts of the payout legs the request has submitted: token A before
\* this step, token B in it
SubmittedLegs ==
    wd.token_a_out
      + (IF Len(liq_txlog') > Len(liq_txlog) THEN liq_txlog'[Len(liq_txlog')].amount ELSE 0)

\* C22: when a withdrawal that has submitted at least one payout leg
\* completes, the user's tracked balance has gone down by the sum of the
\* submitted legs (to 0 at the least), also when the second leg's sync or
\* submission failed after the first leg was submitted.
C22_AccountingCoversPayouts ==
    [][(WithdrawCompletes /\ SubmittedLegs > 0) =>
          TrackedDeposit(user_deposits', <<wd.user, wd.pool>>) =
              Max(TrackedDeposit(user_deposits, <<wd.user, wd.pool>>) - SubmittedLegs, 0)]_vars


(***************************************************************************)
(* The worker's cycles: one consume request, or one periodic scan with the *)
(* sweep that follows it (main, lines 231-275).                            *)
(***************************************************************************)
EngineNotes == {"n1"}

\* the worker leaves the top of its loop
CycleBegins == cycle' = [cycle EXCEPT !.stale = {}]

\* this step is execute_p2id_swap called by the scan on its next note
ScanAttempts(n) ==
    AtNote /\ Head(job.notes) = n /\ n \in DOMAIN swap_info_map /\ WorkerMoves

\* this step is execute_p2id_swap called by the sweep for its next order, as
\* far as the step shows it
SweepAttempts(n) ==
    /\ pc = "order" /\ sweep # <<>>
    /\ Head(sweep).note_id = n
    /\ Triggered(Head(sweep))
    /\ <<txlog, last_swap>>' # <<txlog, last_swap>>

Attempts(n) == ScanAttempts(n) \/ SweepAttempts(n)

\* the notes whose swap this step saw fail with a state mismatch
MismatchedNow ==
    {n \in Notes : Attempts(n) /\ last_swap'.note = n /\ last_swap'.result = "mismatch"}

CycleRecords == cycle' = [cycle EXCEPT !.stale = @ \cup MismatchedNow]

EngineNext ==
    /\ UNCHANGED <<liqVars, disk, probe, last_poll, serving>>
    /\ \/ Tick /\ UNCHANGED cycle
       \/ (\E n \in EngineNotes : NoteArrives(n)) /\ UNCHANGED cycle
       \/ /\ \E n \in EngineNotes, info \in SwapInfos, e \in ExpiresIn :
                create_limit_order_handler(n, info, e)
          /\ UNCHANGED cycle
       \/ consume_handler("none") /\ UNCHANGED cycle
       \/ WorkerRecv /\ CycleBegins
       \/ WorkerAutoPoll /\ CycleBegins
       \/ PoolStep /\ UNCHANGED cycle
       \/ NoteStep /\ CycleRecords
       \/ AwaitStep /\ UNCHANGED cycle
       \/ SweepStart /\ UNCHANGED cycle
       \/ OrderStep /\ CycleRecords
       \/ FillStep /\ UNCHANGED cycle

EngineSpec == Init /\ [][EngineNext]_vars

(***************************************************************************)
(* A swap that fails with a state mismatch.                                *)
(***************************************************************************)
\* C23: when a swap fails with a state mismatch, the scan submits nothing for
\* it, keeps its intent and leaves the rest of the pool's notes to a later
\* cycle, and until the worker is back at the top of its loop no swap is
\* attempted again for a note that failed so.
C23_NoRetryInCycle ==
    [][/\ \A n \in MismatchedNow :
             /\ UNCHANGED <<txlog, vault, consumable, swap_info_map>>
             /\ ScanAttempts(n) => job'.notes = <<>>
       /\ \A n \in cycle.stale : pc # "idle" => ~Attempts(n)]_vars

\* within consume_pool_notes alone: after a mismatch the scan goes on to the
\* next pool without taking another note of this one
C23_ScanStops ==
    [][\A n \in Notes :
          (ScanAttempts(n) /\ last_swap'.result = "mismatch")
              => /\ job'.notes = <<>>
                 /\ pc' = "note"
                 /\ UNCHANGED <<txlog, vault, consumable, swap_info_map, settled>>]_vars


(***************************************************************************)
(* One worker: requests, scans and sweeps one at a time.                   *)
(***************************************************************************)
\* the intent used where the scenario needs only one
PlainInfo == CHOOSE info \in SwapInfos : info.min_amount_out = 90

\* two notes of one pool, one with a swap intent and one under a limit
\* order, consume requests, the periodic scan and the sweep
SerialNext ==
    /\ UNCHANGED <<liqVars, auxVars>>
    /\ \/ \E n \in Notes : NoteArrives(n)
       \/ track_note_handler("n2", PlainInfo)
       \/ \E e \in ExpiresIn : create_limit_order_handler("n1", PlainInfo, e)
       \/ consume_handler("none")
       \/ WorkerRecv
       \/ WorkerAutoPoll
       \/ PoolStep
       \/ NoteStep
       \/ AwaitStep
       \/ SweepStart
       \/ OrderStep
       \/ FillStep

SerialSpec == Init /\ [][SerialNext]_vars

\* transactions submitted and not yet seen confirmed or timed out
InFlight == {i \in DOMAIN txlog : txlog[i].status = "submitted"}

\* requests the worker has taken from the queue
Dequeued ==
    {r \in 1..MaxRequests : replies[r].status \in {"ok", "err"} \/ job.req = r}

OneAtATime ==
    /\ InFlight \subseteq {Len(txlog)}
    /\ InFlight # {} <=> pc \in {"await", "fill"}
    /\ pc \in {"pool", "note", "await"} => job # NoJob /\ sweep = <<>>
    /\ pc \in {"sweep", "order", "fill"} => job = NoJob
    /\ pc = "idle" => job = NoJob /\ sweep = <<>> /\ swap = NoSwap

Fifo ==
    /\ \A i, j \in DOMAIN consume_rx : i < j => consume_rx[i].id < consume_rx[j].id
    /\ \A r \in Dequeued :
          /\ \A i \in DOMAIN consume_rx : r < consume_rx[i].id
          /\ \A q \in 1..(r - 1) : replies[q].status \in {"ok", "err"}

\* a swap is priced in this step
PricedNow(n) ==
    /\ Attempts(n)
    /\ last_swap'.note = n
    /\ last_swap'.result \in {"slippage", "submit_err", "mismatch", "submitted"}

\* the amounts the ledger's settled transactions have moved in a pool's vault
Settled(pool, token) ==
    LET moved[i \in 0..Len(txlog)] ==
            IF i = 0 THEN 0
            ELSE moved[i - 1]
                  + (IF txlog[i].pool # pool THEN 0
                     ELSE IF txlog[i].has_output /\ txlog[i].asset = token
                          THEN 0 - txlog[i].amount
                     ELSE IF NoteToken[txlog[i].input] = token
                          THEN NoteAmount[txlog[i].input]
                     ELSE 0)
    IN  1000 + moved[Len(txlog)]

\* C24: the worker runs one request, scan or sweep at a time with at most one
\* transaction in flight, serves queued requests in arrival order, and prices
\* each swap from reserves that include every earlier settlement.
C24_Serialization ==
    /\ [](OneAtATime /\ Fifo)
    /\ [][\A n \in Notes :
             PricedNow(n) =>
                 /\ InFlight = {}
                 /\ last_swap'.reserve_in = Settled(NotePool[n], "A")
                 /\ last_swap'.reserve_out = Settled(NotePool[n], "B")]_vars

C24_Witness ==
    /\ Len(txlog) = 1 /\ txlog[1].status = "confirmed" /\ txlog[1].input = "n1"
    /\ limit_orders # <<>> /\ limit_orders[1].status = "Filled"
    /\ last_swap.note = "n2" /\ ~last_swap.auto
    /\ last_swap.result = "slippage" /\ last_swap.reserve_in = 1100
    /\ \E r \in 1..MaxRequests : replies[r].status = "ok"

(***************************************************************************)
(* The life of a worker thread.  The two daemons are separate processes;   *)
(* the scenario runs one of them from the start of its worker to the end   *)
(* of its HTTP server.                                                     *)
(***************************************************************************)
\* the server task ends and drops its AppState, the last sender of the queue
ServerStops(d) ==
    /\ d \in serving
    /\ serving' = serving \ {d}
    /\ UNCHANGED <<swapVars, liqVars, disk, probe, last_poll, cycle>>

\* try_recv() returned Disconnected: break
WorkerStops ==
    /\ pc = "idle"
    /\ consume_rx = <<>>
    /\ "swap" \notin serving
    /\ pc' = "stopped"
    /\ UNCHANGED <<now, swap_info_map, price_history, limit_orders, consume_rx,
                   replies, job, swap, sweep, consumable, arrived, vault, txlog,
                   settled, last_swap, cancel_log>>

LiqWorkerStops ==
    /\ liq_pc = "idle"
    /\ worker_rx = <<>>
    /\ "liquidity" \notin serving
    /\ liq_pc' = "stopped"
    /\ UNCHANGED <<deposit_info_map, user_deposits, deposits_file, worker_rx,
                   liq_replies, liq_job, wd, liq_consumable, liq_arrived,
                   liq_vault, liq_txlog, credited>>

SurvivalNotes == {"n1"}
SurvivalDeposits == {"d1"}

Funded == [p \in PoolSet |-> [t \in Tokens |-> 1000]]

\* the swap daemon's state with nothing registered or queued, its pools'
\* vaults, the clock and the price history as given
SwapStartAt(at, vaults, t, history) ==
    /\ pc = at
    /\ now = t
    /\ swap_info_map = EmptyMap
    /\ price_history = history
    /\ limit_orders = <<>>
    /\ consume_rx = <<>>
    /\ replies = [r \in 1..MaxRequests |-> NoReply]
    /\ job = NoJob
    /\ swap = NoSwap
    /\ sweep = <<>>
    /\ consumable = {}
    /\ arrived = {}
    /\ vault = vaults
    /\ txlog = <<>>
    /\ settled = [n \in Notes |-> 0]
    /\ last_swap = NoResult
    /\ cancel_log = <<>>

SwapStartWith(at, vaults) == SwapStartAt(at, vaults, 0, <<>>)
SwapStart(at) == SwapStartWith(at, Funded)

LiqStart(at) ==
    /\ liq_pc = at
    /\ deposit_info_map = EmptyMap
    /\ user_deposits = EmptyMap
    /\ deposits_file = NoFile
    /\ worker_rx = <<>>
    /\ liq_replies = [r \in LiqRequests |-> LiqNoReply]
    /\ liq_job = LiqNoJob
    /\ wd = NoWithdraw
    /\ liq_consumable = {}
    /\ liq_arrived = {}
    /\ liq_vault = [p \in PoolSet |-> [t \in Tokens |-> IF t = "A" THEN 1000 ELSE 3000]]
    /\ liq_txlog = <<>>
    /\ credited = [k \in DepositKeys |-> 0]

\* one daemon's process is started, its worker about to build its client
\* (the liquidity daemon's client already built); the other is not running
SurvivalInit ==
    /\ disk = "ok" /\ probe = NoProbe /\ last_poll = 0 /\ cycle = NoCycle
    /\ \/ serving = {"swap"} /\ SwapStart("init") /\ LiqStart("down")
       \/ serving = {"liquidity"} /\ SwapStart("down") /\ LiqStart("idle")

SwapWorkerStep ==
    \/ WorkerInit
    \/ WorkerRecv
    \/ "swap" \in serving /\ WorkerAutoPoll
    \/ PoolStep
    \/ NoteStep
    \/ AwaitStep
    \/ SweepStart
    \/ OrderStep
    \/ FillStep
    \/ WorkerStops

LiqWorkerStep ==
    \/ LiqRecvConsume
    \/ "liquidity" \in serving /\ LiqAutoPoll
    \/ LiqPoolStep
    \/ LiqNoteStep
    \/ WithdrawLegA
    \/ WithdrawLegB
    \/ LiqWorkerStops

SwapDaemonStep ==
    /\ UNCHANGED <<liqVars, auxVars>>
    /\ \/ \E n \in SurvivalNotes : NoteArrives(n)
       \/ /\ "swap" \in serving
          /\ \/ /\ limit_orders = <<>>
                /\ \E info \in SwapInfos, e \in ExpiresIn :
                      create_limit_order_handler("n1", info, e)
             \/ \E opt \in {"none", "bad"} : consume_handler(opt)
             \/ HandlerStep
       \/ SwapWorkerStep

LiqDaemonStep ==
    /\ UNCHANGED <<swapVars, auxVars>>
    /\ \/ \E n \in SurvivalDeposits : DepositArrives(n)
       \/ /\ "liquidity" \in serving
          /\ \/ \E n \in SurvivalDeposits, info \in DepositInfos :
                   liq_track_note_handler(n, info)
             \/ liq_consume_handler("none")
             \/ \E lp \in LpAmounts : withdraw_handler("milo", "u1", lp)
       \/ LiqWorkerStep

SurvivalNext ==
    \/ \E d \in Daemons : ServerStops(d)
    \/ pc # "down" /\ SwapDaemonStep
    \/ liq_pc # "down" /\ LiqDaemonStep

SurvivalSpec == SurvivalInit /\ [][SurvivalNext]_vars

\* both worker threads keep running
SurvivalFairSpec ==
    /\ SurvivalSpec
    /\ WF_vars(SwapDaemonStep /\ SwapWorkerStep)
    /\ WF_vars(LiqDaemonStep /\ LiqWorkerStep)

Answered == {"ok", "err"}

\* the swap worker's loop ends in this step
SwapLoopEnds == pc' \in {"dead", "stopped"} /\ pc' # pc
LiqLoopEnds == liq_pc' \in {"dead", "stopped"} /\ liq_pc' # liq_pc

\* each worker is at the top of its loop, or its thread has ended
AtLoopTop ==
    /\ pc \in {"down", "idle", "dead", "stopped"}
    /\ liq_pc \in {"down", "idle", "stopped"}

\* no request waits in the queue of a worker whose client was built; a
\* request's status never goes back to queued
NothingOwed ==
    /\ \A r \in 1..MaxRequests :
          replies[r].status = "queued" => pc \in {"init", "dead"}
    /\ \A r \in LiqRequests : liq_replies[r].status # "queued"

C25_LiqSurvives ==
    /\ liq_pc = "idle"
    /\ \E r1, r2 \in LiqRequests :
          /\ r1 < r2
          /\ liq_replies[r1].kind = "withdraw" /\ liq_replies[r1].status = "err"
          /\ liq_replies[r2].status = "ok"

(***************************************************************************)
(* A pool with an empty reserve.                                           *)
(***************************************************************************)
\* the vault of the notes' pool: funded on both sides, or one asset missing
PoolVaults ==
    { [t \in Tokens |-> 1000],
      [t \in Tokens |-> IF t = "A" THEN 1000 ELSE 0],
      [t \in Tokens |-> IF t = "A" THEN 0 ELSE 1000] }

EmptyPoolInit ==
    /\ LiqInit
    /\ AuxInit
    /\ \E v \in PoolVaults : SwapStartWith("idle", [Funded EXCEPT !["milo"] = v])

EmptyPoolNext ==
    /\ UNCHANGED <<liqVars, auxVars>>
    /\ \/ \E n \in OrderNotes : NoteArrives(n)
       \/ \E n \in OrderNotes, info \in SwapInfos : track_note_handler(n, info)
       \/ \E n \in OrderNotes, info \in SwapInfos, e \in ExpiresIn :
             create_limit_order_handler(n, info, e)
       \/ consume_handler("none")
       \/ WorkerRecv
       \/ WorkerAutoPoll
       \/ PoolStep
       \/ NoteStep
       \/ AwaitStep
       \/ SweepStart
       \/ OrderStep
       \/ FillStep

EmptyPoolSpec == EmptyPoolInit /\ [][EmptyPoolNext]_vars

\* the pool of the intent or order has nothing of one of its two assets
EmptyFor(pool, info) == ReserveIn(pool, info) = 0 \/ ReserveOut(pool, info) = 0

\* the sweep takes its next order in this step
SweepTakes(o) == pc = "order" /\ sweep # <<>> /\ Head(sweep) = o /\ sweep' # sweep

\* C26: with a reserve of the pool at zero a swap fails before it is priced:
\* nothing is submitted, the note stays consumable, its intent registered, and
\* no price sample is recorded; the sweep passes over an order of that pool
\* and leaves it as it is.
C26_EmptyPoolRejected ==
    [][/\ \A n \in Notes :
             (ScanAttempts(n) /\ EmptyFor(NotePool[n], swap_info_map[n]))
                 => /\ last_swap'.note = n
                    /\ last_swap'.result \in {"empty_pool", "sync_err"}
                    /\ last_swap'.amount_out = 0
                    /\ pc' = "note"
                    /\ UNCHANGED <<txlog, vault, consumable, swap_info_map,
                                   price_history, settled, limit_orders>>
       /\ \A i \in DOMAIN sweep :
             (SweepTakes(sweep[i]) /\ EmptyFor(sweep[i].pool_id, sweep[i]))
                 => /\ pc' = "order"
                    /\ UNCHANGED <<txlog, vault, consumable, swap_info_map,
                                   price_history, settled, limit_orders, last_swap>>]_vars

C26_Witness ==
    /\ pc = "order" /\ sweep = <<>>
    /\ limit_orders # <<>> /\ limit_orders[1].status = "Pending"
    /\ vault["milo"]["B"] = 0
    /\ last_swap.result = "empty_pool"
    /\ txlog = <<>> /\ price_history = <<>>
    /\ "n1" \in consumable /\ "n1" \in DOMAIN swap_info_map

(***************************************************************************)
(* The pricing arithmetic at the expected magnitudes.                      *)
(***************************************************************************)
\* 10^18, the largest expected amount
ExpectedMax == BigMul(Big(1000000000, 0), Big(1000000000, 0))

WithinExpected(a) == BigCmp(a, ExpectedMax) <= 0

\* C27: for amount_in, reserve_in and reserve_out up to 10^18 and every fee
\* tier, neither 128-bit intermediate of the pricing exceeds 2^128 - 1 and the
\* computed output is the exact floor.
C27_NoOverflow ==
    (/\ Quoted
     /\ WithinExpected(probe.amount_in)
     /\ WithinExpected(probe.reserve_in)
     /\ WithinExpected(probe.reserve_out))
        => LET with_fee == BigMul(probe.amount_in, Big(BPS_DENOM - probe.fee_bps, 0))
           IN  /\ FitsU128(BigMul(with_fee, probe.reserve_out))
               /\ FitsU128(BigAdd(BigMul(probe.reserve_in, Big(BPS_DENOM, 0)), with_fee))
               /\ probe.first.kind = "ok"
               /\ probe.first.amount_out =
                      ExactAmountOut(probe.amount_in, probe.reserve_in,
                                     probe.reserve_out, probe.fee_bps)

\* the denominator alone stays within 128 bits for every u64 input
C27_DenominatorFits ==
    Quoted =>
        FitsU128(BigAdd(BigMul(probe.reserve_in, Big(BPS_DENOM, 0)),
                        BigMul(probe.amount_in, Big(BPS_DENOM - probe.fee_bps, 0))))

(***************************************************************************)
(* The price history over more than a day.                                 *)
(***************************************************************************)
HalfDay == 43200

\* the clock at the moments the scenario looks at: half a day, a day, a day
\* and a second, a day and a half and a second after the first sample
ClockTimes == {HalfDay, RETENTION_SECS, RETENTION_SECS + 1, RETENTION_SECS + HalfDay + 1}

ClockJump ==
    /\ \E t \in ClockTimes : t > now /\ now' = t
    /\ UNCHANGED <<swap_info_map, price_history, limit_orders, consume_rx,
                   replies, pc, job, swap, sweep, consumable, arrived, vault,
                   txlog, settled, last_swap, cancel_log>>

\* an intent that any output satisfies, so that a second swap of the pool
\* goes through
LooseInfo == [PlainInfo EXCEPT !.min_amount_out = 1]

\* what the swaps of the first half day left behind: samples at 0 and at
\* half a day, in the order they were recorded
EarlierSamples ==
    {[timestamp |-> t, pool_id |-> p, reserve_a |-> 1000, reserve_b |-> 1000] :
        t \in {0, HalfDay}, p \in PoolSet}
EarlierHistories ==
    {h \in UNION {[1..n -> EarlierSamples] : n \in 0..2} :
        \A i \in 1..(Len(h) - 1) : h[i].timestamp <= h[i + 1].timestamp}

RetentionInit ==
    /\ LiqInit
    /\ AuxInit
    /\ \E h \in EarlierHistories : SwapStartAt("idle", Funded, HalfDay, h)

RetentionNext ==
    /\ UNCHANGED <<liqVars, auxVars>>
    /\ \/ ClockJump
       \/ \E n \in Notes : NoteArrives(n)
       \/ \E n \in Notes : track_note_handler(n, LooseInfo)
       \/ WorkerAutoPoll
       \/ PoolStep
       \/ NoteStep
       \/ AwaitStep
       \/ SweepStart

RetentionSpec == RetentionInit /\ [][RetentionNext]_vars

RECURSIVE IsSubsequence(_, _)
\* a is b with some elements left out, the rest in b's order
IsSubsequence(a, b) ==
    IF a = <<>> THEN TRUE
    ELSE IF b = <<>> THEN FALSE
    ELSE IF Head(a) = Head(b) THEN IsSubsequence(Tail(a), Tail(b))
    ELSE IsSubsequence(a, Tail(b))

PoolOrdered(history) ==
    \A i, j \in DOMAIN history :
        (i < j /\ history[i].pool_id = history[j].pool_id)
            => history[i].timestamp <= history[j].timestamp

Recorded == price_history' # price_history

ReservesRead == {"empty_pool", "slippage", "submit_err", "mismatch", "submitted"}

\* C29: a failure of the state sync that precedes a reserve read does not
\* abort the swap: every swap the engine attempts gets as far as reading the
\* reserves it knows locally.
C29_SyncFailureTolerated ==
    [][\A n \in Notes :
          (Attempts(n) /\ last_swap'.note = n) => last_swap'.result \in ReservesRead]_vars

(***************************************************************************)
(* The poll timer of the swap daemon's worker (main, lines 228-275), with  *)
(* the clock in seconds.                                                   *)
(***************************************************************************)
POLL_INTERVAL == 15
CadenceStep == 10     \* seconds between two looks at the clock
Horizon == 40         \* the clock runs 0..Horizon

Elapse ==
    /\ now + CadenceStep <= Horizon
    /\ now' = now + CadenceStep
    /\ UNCHANGED <<swap_info_map, price_history, limit_orders, consume_rx,
                   replies, pc, job, swap, sweep, consumable, arrived, vault,
                   txlog, settled, last_swap, cancel_log>>

\* last_poll.elapsed() >= Duration::from_secs(15)
PollDue == now - last_poll >= POLL_INTERVAL

\* the worker comes back to the top of its loop from a consume request
RequestDone == pc' = "idle" /\ (pc = "pool" \/ (pc = "idle" /\ consume_rx' # consume_rx))

\* the worker comes back to the top of its loop from check_limit_orders
SweepDone == pc' = "idle" /\ pc \in {"sweep", "order"}

\* last_poll = Instant::now() after a request (line 240) and after the
\* periodic branch (line 271)
TimerFollows ==
    /\ last_poll' = IF RequestDone \/ SweepDone THEN now ELSE last_poll
    /\ cycle' = IF SweepDone THEN [cycle EXCEPT !.swept_at = now] ELSE cycle

CadenceNext ==
    /\ UNCHANGED <<liqVars, disk, probe, serving>>
    /\ \/ Elapse /\ UNCHANGED <<last_poll, cycle>>
       \/ (\E n \in OrderNotes : NoteArrives(n)) /\ UNCHANGED <<last_poll, cycle>>
       \/ /\ limit_orders = <<>>
          /\ \E e \in ExpiresIn : create_limit_order_handler("n1", PlainInfo, e)
          /\ UNCHANGED <<last_poll, cycle>>
       \/ consume_handler("none") /\ UNCHANGED <<last_poll, cycle>>
       \/ WorkerRecv /\ TimerFollows
       \/ PollDue /\ WorkerAutoPoll /\ TimerFollows
       \/ PoolStep /\ TimerFollows
       \/ NoteStep /\ TimerFollows
       \/ AwaitStep /\ TimerFollows
       \/ SweepStart /\ TimerFollows
       \/ OrderStep /\ TimerFollows
       \/ FillStep /\ TimerFollows

CadenceSpec == Init /\ [][CadenceNext]_vars

\* C30: the periodic scan and sweep keep their cadence whatever the HTTP
\* traffic: whenever the worker is at the top of its loop with nothing queued
\* and a full poll interval has passed since the last sweep, the periodic
\* branch is due and sweeps the Pending orders.
C30_CadenceKept ==
    (/\ pc = "idle" /\ consume_rx = <<>>
     /\ \E i \in DOMAIN limit_orders : limit_orders[i].status = "Pending"
     /\ now - cycle.swept_at >= POLL_INTERVAL)
        => PollDue

\* without consume requests the timer and the last sweep never part
C30_QuietCadence ==
    (\A r \in 1..MaxRequests : replies[r].status = "unsent")
        => (pc = "idle" => last_poll = cycle.swept_at)

(***************************************************************************)
(* POST /withdraw from the request body on: the identifiers and the amount *)
(* arrive as strings.                                                      *)
(***************************************************************************)
\* strings a client may send as lp_amount; "0xzz" below is not an account id
AmountStrings == {"300", "0", "abc"}
WithdrawBodies ==
    [pool_account_id : {"milo", "0xzz"},
     user_account_id : {"u1", "u2", "0xzz"},
     lp_amount : AmountStrings]

\* AccountId::from_hex
from_hex(s) ==
    IF s \in PoolSet \cup Users THEN [ok |-> TRUE, id |-> s]
    ELSE [ok |-> FALSE, id |-> "none"]

\* str::parse::<u64> of the decimal strings in use
DecimalU64 == [s \in {"300", "0"} |-> IF s = "300" THEN 300 ELSE 0]

\* a parse that falls back to one unit
ParseAmountOrOne(s) == IF s \in DOMAIN DecimalU64 THEN DecimalU64[s] ELSE 1

\* payload.lp_amount.parse().unwrap_or(0)
ParseAmount(s) == IF s \in DOMAIN DecimalU64 THEN DecimalU64[s] ELSE 0

\* the early returns of withdraw_handler: StatusCode::BAD_REQUEST
BadRequest ==
    /\ liq_replies' = [liq_replies EXCEPT ![LiqNextReq] =
                          [LiqNoReply EXCEPT !.kind = "withdraw",
                                             !.status = "bad_request"]]
    /\ UNCHANGED <<deposit_info_map, user_deposits, deposits_file, worker_rx,
                   liq_pc, liq_job, wd, liq_consumable, liq_arrived, liq_vault,
                   liq_txlog, credited>>

\* withdraw_handler on a request body
withdraw_request(payload) ==
    LET pool_id == from_hex(payload.pool_account_id)
        user_id == from_hex(payload.user_account_id)
        lp_amount == ParseAmount(payload.lp_amount)
    IN  IF ~pool_id.ok \/ ~user_id.ok \/ lp_amount = 0
        THEN Cardinality(LiqSent("withdraw")) < MaxWithdraws /\ BadRequest
        ELSE withdraw_handler(pool_id.id, user_id.id, lp_amount)

\* the liquidity daemon serving /track_note and /withdraw bodies
RejectNext ==
    /\ UNCHANGED <<swapVars, auxVars>>
    /\ \/ \E n \in DepositNotes : DepositArrives(n)
       \/ \E n \in DepositNotes, info \in DepositInfos : liq_track_note_handler(n, info)
       \/ \E payload \in WithdrawBodies : withdraw_request(payload)
       \/ LiqAutoPoll
       \/ LiqPoolStep
       \/ LiqNoteStep
       \/ WithdrawLegA
       \/ WithdrawLegB

RejectSpec == Init /\ [][RejectNext]_vars

\* a body the service must refuse: an id that is not an account id, or an
\* amount that is zero or not a number
InvalidBody(payload) ==
    \/ payload.pool_account_id = "0xzz"
    \/ payload.user_account_id = "0xzz"
    \/ payload.lp_amount \in {"0", "abc"}

\* the worker takes a withdrawal of a user without a tracked deposit
TakesUntracked ==
    /\ WithdrawLegA
    /\ TrackedDeposit(user_deposits, <<Head(worker_rx).user, Head(worker_rx).pool_id_opt>>) = 0

\* C31: a /withdraw whose pool or user id is invalid or whose lp_amount is 0
\* or unparsable is answered 400 and nothing is enqueued; a withdrawal of a
\* user without a tracked deposit is failed by the worker whatever the ledger
\* would answer, with no transaction; the tracked balances, the vaults and
\* the persisted file are unchanged in all these cases.
C31_RejectedLocally ==
    [][/\ \A payload \in WithdrawBodies :
            (withdraw_request(payload) /\ InvalidBody(payload))
               => /\ liq_replies'[LiqNextReq].status = "bad_request"
                  /\ UNCHANGED <<worker_rx, liq_pc, wd, liq_txlog, liq_vault,
                                 user_deposits, deposits_file>>
       /\ TakesUntracked
            => /\ liq_replies'[Head(worker_rx).id].status = "err"
               /\ liq_pc' = "idle"
               /\ UNCHANGED <<liq_txlog, liq_vault, user_deposits, deposits_file>>]_vars

\* a refused body and a failed withdrawal while no deposit was ever tracked
C31_Witness ==
    /\ \E r \in LiqRequests : liq_replies[r].status = "bad_request"
    /\ \E r \in LiqRequests : liq_replies[r].kind = "withdraw" /\ liq_replies[r].status = "err"
    /\ user_deposits = EmptyMap
    /\ liq_txlog = <<>>

\* the worker, serving a /consume request, is at a note without an intent
UnknownNoteInRequest ==
    /\ AtNote
    /\ ~job.auto
    /\ Head(job.notes) \notin DOMAIN swap_info_map

\* C32: a note without a registered intent that a /consume request finds is
\* consumed plain: its transaction has the note as only effect (no output
\* note, no payout), the registry and the price history stay as they are,
\* and the note counts as consumed exactly when the transaction was confirmed
\* or the 30 s wait timed out, never when the submission failed.
C32_PlainConsume ==
    /\ [](\A i \in DOMAIN txlog :
            ~txlog[i].had_intent =>
                /\ ~txlog[i].has_output
                /\ txlog[i].amount = 0
                /\ txlog[i].to = "none")
    /\ [][(UnknownNoteInRequest /\ WorkerMoves) =>
            LET note == Head(job.notes)
                submitted == txlog' # txlog
                counted == job'.total_consumed = job.total_consumed + 1
            IN  /\ UNCHANGED <<swap_info_map, price_history>>
                /\ submitted =>
                     /\ txlog' = Append(txlog, txlog'[Len(txlog')])
                     /\ txlog'[Len(txlog')].input = note
                     /\ ~txlog'[Len(txlog')].has_output
                     /\ note \notin consumable'
                /\ ~submitted => job'.total_consumed = job.total_consumed
                /\ submitted =>
                     (counted <=> txlog'[Len(txlog')].status \in {"confirmed", "timeout"})
                /\ ~counted => job'.total_consumed = job.total_consumed]_vars

\* a request answered with one note consumed plain after the wait timed out
C32_Witness ==
    /\ \E r \in 1..MaxRequests : replies[r].status = "ok" /\ replies[r].consumed = 1
    /\ Len(txlog) = 1
    /\ ~txlog[1].had_intent /\ ~txlog[1].auto /\ ~txlog[1].has_output
    /\ txlog[1].status = "timeout"
    /\ price_history = <<>>

\* C33: a registered intent is stable: while a note's intent is in the
\* registry, no later /track_note or /limit_order carrying the same note id
\* changes the parameters the note will be settled with.
C33_IntentsStable ==
    [][\A n \in DOMAIN swap_info_map :
          n \in DOMAIN swap_info_map' => swap_info_map'[n] = swap_info_map[n]]_vars

(***************************************************************************)
(* The swap daemon with intents whose amount_in is what the caller wrote   *)
(* in the /track_note body: the amount the note carries, or another one.   *)
(***************************************************************************)
ClaimedAmounts == {100, 200}
CustodyInfos == {[PlainInfo EXCEPT !.amount_in = a] : a \in ClaimedAmounts}

CustodyNext ==
    /\ UNCHANGED <<liqVars, auxVars>>
    /\ \/ NoteArrives("n1")
       \/ \E info \in CustodyInfos : track_note_handler("n1", info)
       \/ consume_handler("none")
       \/ WorkerRecv
       \/ WorkerAutoPoll
       \/ PoolStep
       \/ NoteStep
       \/ AwaitStep
       \/ SweepStart

CustodySpec == Init /\ [][CustodyNext]_vars

\* C34: the payout is backed by custody: the amount_in a swap is priced with
\* is the amount of the asset the consumed note carries, so the output of a
\* submitted swap never exceeds the AMM output, at the reserves and fee the
\* swap read, for what the pool received.
C34_PayoutBacked ==
    /\ pc = "await" => swap.amount_in = NoteAmount[swap.note]
    /\ last_swap.result \in {"submitted", "confirmed", "timeout"} =>
          last_swap.amount_out <=
              AmountOut(NoteAmount[last_swap.note], last_swap.reserve_in,
                        last_swap.reserve_out, last_swap.fee_bps)

\* every order placed on the note has been cancelled or has expired
Withdrawn(n) ==
    /\ \E i \in DOMAIN limit_orders : limit_orders[i].note_id = n
    /\ \A i \in DOMAIN limit_orders :
          limit_orders[i].note_id = n =>
              limit_orders[i].status \in {"Cancelled", "Expired"}

\* C35: once a limit order is Cancelled or Expired, the engine submits no
\* swap that consumes the order's source note, neither from the sweep nor
\* from the regular scan.
C35_NoSwapAfterCancel ==
    [][\A i \in DOMAIN txlog' :
          (i \notin DOMAIN txlog /\ txlog'[i].has_output)
              => ~Withdrawn(txlog'[i].input)]_vars

\* the orders placed on a note
OrdersOn(n) == {i \in DOMAIN limit_orders : limit_orders[i].note_id = n}

\* C36: the limit price is honoured whichever path settles the note: every
\* swap transaction consuming the source note of a limit order pays at least
\* the minimum of an order placed on that note, and once the note's swap is
\* confirmed and the cycle is over an order on it is Filled (orders that were
\* cancelled or have expired aside).
C36_LimitHonoured ==
    /\ \A i \in DOMAIN txlog :
          (txlog[i].has_output /\ OrdersOn(txlog[i].input) # {}) =>
              \E o \in OrdersOn(txlog[i].input) :
                  txlog[i].amount >= limit_orders[o].min_amount_out
    /\ \A i \in DOMAIN txlog :
          (/\ txlog[i].has_output
           /\ txlog[i].status = "confirmed"
           /\ OrdersOn(txlog[i].input) # {}
           /\ \A o \in OrdersOn(txlog[i].input) :
                 limit_orders[o].status \notin {"Cancelled", "Expired"}
           /\ pc = "idle")
              => \E o \in OrdersOn(txlog[i].input) :
                    limit_orders[o].status = "Filled"

\* C37: order ids are unique: no two orders of the book share an order_id,
\* so a cancel or a fill by order_id reaches exactly one order.
C37_OrderIdsUnique ==
    \A i, j \in DOMAIN limit_orders :
        i # j => limit_orders[i].order_id # limit_orders[j].order_id

\* C38: in the liquidity daemon every note whose consumption is confirmed
\* while a deposit intent for its id is in the registry is credited to the
\* intent's user for that pool, also when the intent was registered after
\* the /consume request was enqueued and before the worker reached the note.
C38_ConsumedIsCredited ==
    [][\A i \in DOMAIN liq_txlog' :
          (/\ i \notin DOMAIN liq_txlog
           /\ liq_txlog'[i].input \in DOMAIN deposit_info_map
           /\ liq_txlog'[i].status = "confirmed")
              => LET info == deposit_info_map[liq_txlog'[i].input]
                     key == <<info.user_account_id, liq_txlog'[i].pool>>
                 IN  credited'[key] = credited[key] + info.amount]_vars

(***************************************************************************)
(* The faucet server: GET /get_tokens with its daily rate limit.  The      *)
(* faucet's state is the record probe: the day, the rate_limits map, the   *)
(* mint requests sent to the worker, and whether the map's mutex is        *)
(* poisoned.  Amounts are u64 values in digits.                            *)
(***************************************************************************)
MAX_DAILY_AMOUNT == 1000000000
ADMIN_ACCOUNT_ID == "0x9e96e636738fc9104ed2b971931cc7"
MaxMints == 3         \* requests dispatched to the worker
MaxDay == 1           \* days the clock passes through

\* token_symbol and account_id strings of a query
TokenStrings == {"milo", "MILO", "DOGE"}
AccountStrings == {"0xaa", "AA", ADMIN_ACCOUNT_ID, "mtst1q"}

\* asset_amount values after parse::<u64>: 0, 1, 600000000, the cap, 2^64 - 1
FaucetAmounts ==
    {BigZero, Big(1, 0), Big(600000000, 0), Big(MAX_DAILY_AMOUNT, 0), U64Max}

\* str::to_uppercase on the token strings
to_uppercase(s) == IF s = "milo" THEN "MILO" ELSE s

\* faucet_status: the faucets found at start-up
faucet_status == [t \in {"MILO", "MELO", "MUSDC"} |-> TRUE]

\* parse_account_id: a 0x prefix or hex digits only
parse_account_id(s) == s \in {"0xaa", "AA", ADMIN_ACCOUNT_ID}

\* lower case, with the 0x prefix added when it is missing
normalized_id(s) == IF s = "AA" THEN "0xaa" ELSE s

\* a + b in a u64 register, and whether the exact sum does not fit
WrappingAdd(a, b) == Truncate(BigAdd(a, b), U64_BITS)
AddOverflows(a, b) == BigCmp(BigAdd(a, b), U64Max) > 0

\* entry.total_amount + amount > MAX_DAILY_AMOUNT, the sum in a u64
OverLimit(total_amount, amount) ==
    BigCmp(WrappingAdd(total_amount, amount), Big(MAX_DAILY_AMOUNT, 0)) > 0

FaucetInit ==
    /\ SwapInit /\ LiqInit /\ disk = "ok" /\ EngineAuxInit
    /\ probe \in [op : {"faucet"}, today : {0}, rate_limits : {EmptyMap},
                  mint_tx : {<<>>}, poisoned : {FALSE}, status : {0},
                  overflow_checks : BOOLEAN]

\* current_day() moves on
DayPasses ==
    /\ probe.op = "faucet"
    /\ probe.today < MaxDay
    /\ probe' = [probe EXCEPT !.today = @ + 1]
    /\ UNCHANGED <<swapVars, liqVars, disk, engineAux>>

MintRequest(account_id, token, amount) ==
    [recipient_id_hex |-> account_id, token_symbol |-> token, amount |-> amount,
     day |-> probe.today]

\* GET /get_tokens up to the send on mint_tx
get_tokens_handler(token_symbol, account_id, amount) ==
    LET token == to_uppercase(token_symbol)
        is_admin == normalized_id(account_id) = ADMIN_ACCOUNT_ID
        rate_key == <<normalized_id(account_id), token>>
        found == IF rate_key \in DOMAIN probe.rate_limits
                 THEN probe.rate_limits[rate_key]
                 ELSE [total_amount |-> BigZero, day |-> probe.today]
        entry == IF found.day # probe.today
                 THEN [total_amount |-> BigZero, day |-> probe.today]
                 ELSE found
        send == Append(probe.mint_tx, MintRequest(account_id, token, amount))
    IN  /\ probe.op = "faucet"
        /\ Len(probe.mint_tx) < MaxMints
        /\ probe' =
             IF token \notin DOMAIN faucet_status \/ ~parse_account_id(account_id)
                  \/ amount = BigZero
             THEN [probe EXCEPT !.status = 400]
             ELSE IF is_admin
             THEN [probe EXCEPT !.mint_tx = send, !.status = 200]
             ELSE IF probe.poisoned
             THEN [probe EXCEPT !.status = 500]     \* lock().unwrap() panics
             ELSE IF AddOverflows(entry.total_amount, amount) /\ probe.overflow_checks
             THEN [probe EXCEPT !.rate_limits = MapInsert(@, rate_key, entry),
                                !.poisoned = TRUE, !.status = 500]
             ELSE IF OverLimit(entry.total_amount, amount)
             THEN [probe EXCEPT !.rate_limits = MapInsert(@, rate_key, entry),
                                !.status = 429]
             ELSE [probe EXCEPT
                     !.rate_limits = MapInsert(@, rate_key,
                         [entry EXCEPT !.total_amount = WrappingAdd(@, amount)]),
                     !.mint_tx = send, !.status = 200]
        /\ UNCHANGED <<swapVars, liqVars, disk, engineAux>>

FaucetNext ==
    \/ DayPasses
    \/ \E t \in TokenStrings, a \in AccountStrings, amount \in FaucetAmounts :
          get_tokens_handler(t, a, amount)

FaucetSpec == FaucetInit /\ [][FaucetNext]_vars

\* the exact sum of the amounts sent to the worker for an account and token
\* on one day
RECURSIVE SentOn(_, _, _)
SentOn(log, rate_key, day) ==
    IF log = <<>> THEN BigZero
    ELSE LET req == Head(log)
             mine == /\ normalized_id(req.recipient_id_hex) = rate_key[1]
                     /\ req.token_symbol = rate_key[2]
                     /\ req.day = day
         IN  BigAdd(IF mine THEN req.amount ELSE BigZero,
                    SentOn(Tail(log), rate_key, day))

\* C39: for every account other than the admin, every token and every day,
\* the amounts of the mint requests sent to the worker that day add up to at
\* most MAX_DAILY_AMOUNT, whatever u64 amounts are requested.
C39_DailyCap ==
    probe.op = "faucet" =>
        \A a \in AccountStrings, t \in DOMAIN faucet_status, day \in 0..MaxDay :
            normalized_id(a) # ADMIN_ACCOUNT_ID =>
                BigCmp(SentOn(probe.mint_tx, <<normalized_id(a), t>>, day),
                       Big(MAX_DAILY_AMOUNT, 0)) <= 0

\* C40: with exactly two samples of the queried pool the fee is the low tier
\* however far apart the two prices are (the single relative change is its
\* own mean, so the deviation is 0); the default of the normal tier is what a
\* pool with no sample or one sample gets.
C40_TwoSamplesLowFee ==
    probe.op = "fee" =>
        /\ Len(PoolSamples) = 2 => probe.fee_bps = FEE_LOW
        /\ Len(PoolSamples) < 2 => probe.fee_bps = FEE_NORMAL

\* two samples of the pool, the price doubling from one to the next
C40_Witness ==
    /\ probe.op = "fee"
    /\ Len(PoolSamples) = 2
    /\ PriceMicro(PoolSamples[1]) = 1000000
    /\ PriceMicro(PoolSamples[2]) = 2000000
    /\ probe.fee_bps = 5

====
